---- MODULE Spec2Model ----
(***************************************************************************)
(* Model of the test-run evaluation pipeline of nurse-assistant:           *)
(* the queue trigger (GET /api/test-worker), the BullMQ worker             *)
(* (src/jobs/test-run.ts), the orchestrator processTestRun with its        *)
(* p-limit fan-out (src/jobs/worker/index.ts) and the per-case pipeline    *)
(* processTestCaseSafe -> processTestCase -> generation -> calculateScores.*)
(*                                                                         *)
(* JavaScript values are modelled as follows:                              *)
(*   null / undefined      the string NULL (NullObject for objects)        *)
(*   a number in [0,1]     an integer number of 1/Scale units              *)
(*   a thrown value        [isError |-> BOOLEAN, message |-> STRING]       *)
(*   a call that may throw [ok |-> TRUE, val |-> v] or                     *)
(*                         [ok |-> FALSE, exc |-> thrown value]            *)
(***************************************************************************)
EXTENDS Integers, Sequences, FiniteSets, TLC

\* ------------------------------------------------------------------------
\* Bounds of the model
\* ------------------------------------------------------------------------
MaxCases == 4
MaxTriggers == 2
\* context documents of a suite given to loadContexts on its own
MaxDocs == 3

\* ------------------------------------------------------------------------
\* Program constants
\* ------------------------------------------------------------------------
LLM_CONCURRENCY == 3
WorkerConcurrency == 2

NULL == "<null>"
\* null where an object is expected
NullObject == [null |-> TRUE]

\* fixed-point unit of a JavaScript number: 1.0 is Scale
Scale == 10 * 10 * 10

Ok(v) == [ok |-> TRUE, val |-> v]
Throw(e) == [ok |-> FALSE, exc |-> e]
Error(m) == [isError |-> TRUE, message |-> m]
\* a thrown value that is not an Error instance (throw "x", reject(event))
NonError == [isError |-> FALSE, message |-> NULL]

\* error instanceof Error ? error.message : "Unknown error"
ErrorMessage(e) == IF e.isError THEN e.message ELSE "Unknown error"

\* JavaScript truthiness of a string | null
Truthy(s) == s \notin {NULL, ""}

\* String.prototype.trim on the strings of the model
Trim(s) == IF s \in {" ", "  "} THEN "" ELSE s

\* a || b on strings
OrElse(a, b) == IF Truthy(a) THEN a ELSE b

Min(a, b) == IF a <= b THEN a ELSE b
Max(a, b) == IF a >= b THEN a ELSE b

\* ------------------------------------------------------------------------
\* LLMS (utils/constants): model key -> text transport
\* ------------------------------------------------------------------------
LLMS == [m \in {"realtime:gpt-realtime", "openai:gpt-5-mini-2025-08-07",
                "openai:gpt-5.2-2025-12-11", "openai:gpt-realtime-2025-08-28"} |->
          IF m \in {"realtime:gpt-realtime", "openai:gpt-realtime-2025-08-28"}
          THEN [textTransport |-> "realtime"]
          ELSE [textTransport |-> "vercel"]]

\* variant: text always goes through standard text generation
selectedTextTransport_Vercel(llmModel) == "vercel"

\* modelConfig?.textTransport || "vercel"
selectedTextTransport(llmModel) ==
  IF llmModel \in DOMAIN LLMS THEN LLMS[llmModel].textTransport ELSE "vercel"

\* ------------------------------------------------------------------------
\* Model identifier parsing and provider factory (services/llm)
\* ------------------------------------------------------------------------
\* indexOf(":") and the two slices, on the model strings of the model
ColonSplit(s) ==
  CASE s = "openai:gpt-5-mini-2025-08-07" ->
         [colon |-> TRUE, provider |-> "openai", modelId |-> "gpt-5-mini-2025-08-07"]
    [] s = "openai:gpt-4o-mini" ->
         [colon |-> TRUE, provider |-> "openai", modelId |-> "gpt-4o-mini"]
    [] s = "openai:text-embedding-3-small" ->
         [colon |-> TRUE, provider |-> "openai", modelId |-> "text-embedding-3-small"]
    [] s = "realtime:gpt-realtime" ->
         [colon |-> TRUE, provider |-> "realtime", modelId |-> "gpt-realtime"]
    [] s = "google:a:b" ->
         [colon |-> TRUE, provider |-> "google", modelId |-> "a:b"]
    [] s = "anthropic:claude" ->
         [colon |-> TRUE, provider |-> "anthropic", modelId |-> "claude"]
    [] s = "mistral:large" ->
         [colon |-> TRUE, provider |-> "mistral", modelId |-> "large"]
    [] s = "openai:" ->
         [colon |-> TRUE, provider |-> "openai", modelId |-> ""]
    [] s = ":gpt-4o" ->
         [colon |-> TRUE, provider |-> "", modelId |-> "gpt-4o"]
    [] s = "gpt-4o" ->
         [colon |-> FALSE, provider |-> "", modelId |-> ""]

validProviders == {"openai", "anthropic", "google"}

\* variant: an empty provider or model id is let through
parseModelString_AllowsEmptyParts(modelString) ==
  LET p == ColonSplit(modelString) IN
  IF ~p.colon
  THEN Throw(Error("Invalid model format: \"" \o modelString
                   \o "\". Expected \"provider:model-id\" (e.g., \"openai:gpt-4o\")"))
  ELSE IF p.provider # "" /\ p.provider \notin validProviders
  THEN Throw(Error("Unsupported provider: \"" \o p.provider
                   \o "\". Supported: openai, anthropic, google"))
  ELSE Ok([provider |-> IF p.provider = "" THEN "openai" ELSE p.provider,
           modelId |-> p.modelId])

parseModelString(modelString) ==
  LET p == ColonSplit(modelString) IN
  IF ~p.colon
  THEN Throw(Error("Invalid model format: \"" \o modelString
                   \o "\". Expected \"provider:model-id\" (e.g., \"openai:gpt-4o\")"))
  ELSE IF p.provider = "" \/ p.modelId = ""
  THEN Throw(Error("Invalid model format: \"" \o modelString
                   \o "\". Provider and model ID are required."))
  ELSE IF p.provider \notin validProviders
  THEN Throw(Error("Unsupported provider: \"" \o p.provider
                   \o "\". Supported: openai, anthropic, google"))
  ELSE Ok([provider |-> p.provider, modelId |-> p.modelId])

envVarOf(provider) ==
  CASE provider = "openai" -> "OPENAI_API_KEY"
    [] provider = "anthropic" -> "ANTHROPIC_API_KEY"
    [] provider = "google" -> "GOOGLE_AI_API_KEY"

\* env.apiKeys is the set of environment variables that are set
getApiKey(provider, env) ==
  IF envVarOf(provider) \notin env.apiKeys
  THEN Throw(Error("API key not found for provider \"" \o provider
                   \o "\". Please set " \o envVarOf(provider) \o " in your .env file."))
  ELSE Ok(envVarOf(provider))

getModel(config, env) ==
  LET k == getApiKey(config.provider, env) IN
  IF ~k.ok THEN k ELSE Ok(config)

\* variant: a provider failure is swallowed and an empty answer returned
generateAnswer_Swallows(params, env) ==
  LET config == parseModelString(params.model) IN
  IF ~config.ok THEN config
  ELSE LET model == getModel(config.val, env) IN
       IF ~model.ok THEN model
       ELSE IF env.gen.ok THEN Ok(env.gen.val.text) ELSE Ok("")

\* env.gen is what the provider's generateText does: Ok([text, inputTranscript])
\* or Throw(e); generateAnswer wraps a provider failure in a new Error
generateAnswer(params, env) ==
  LET config == parseModelString(params.model) IN
  IF ~config.ok THEN config
  ELSE LET model == getModel(config.val, env) IN
       IF ~model.ok THEN model
       ELSE IF env.gen.ok
            THEN Ok(env.gen.val.text)
            ELSE Throw(Error("LLM generation failed: " \o ErrorMessage(env.gen.exc)))

\* ------------------------------------------------------------------------
\* Realtime transport (services/realtime): env.gen is what the server does
\* with the question: the collected response, or the error event it sends
\* ------------------------------------------------------------------------
\* new Error(event.error?.message || "Response error")
RealtimeError(e) ==
  Error(IF e.isError /\ Truthy(e.message) THEN e.message ELSE "Response error")

\* getRealtimeToken (services/realtime/token): the ephemeral token needs
\* OPENAI_API_KEY
getRealtimeToken(env) ==
  IF "OPENAI_API_KEY" \notin env.apiKeys
  THEN Throw(Error("OPENAI_API_KEY environment variable is not set"))
  ELSE Ok("ek_token")

\* variant: a failure of the transport gives an empty answer
generateAnswerRealtime_EmptyOnFailure(params, env) ==
  LET hasAudio == Truthy(params.questionAudioPath)
                  /\ Trim(params.questionAudioPath) # ""
      hasText  == Truthy(params.questionText) /\ Trim(params.questionText) # ""
  IN
  IF ~hasAudio /\ ~hasText
  THEN Throw(Error("Either questionText or questionAudioPath must be provided"))
  ELSE IF ~getRealtimeToken(env).ok THEN getRealtimeToken(env)
  ELSE Ok([answer |-> IF env.gen.ok THEN env.gen.val.text ELSE "",
           inputTranscript |-> NULL,
           inputType |-> IF hasAudio THEN "audio" ELSE "text"])

generateAnswerRealtime(params, env) ==
  LET hasAudio == Truthy(params.questionAudioPath)
                  /\ Trim(params.questionAudioPath) # ""
      hasText  == Truthy(params.questionText) /\ Trim(params.questionText) # ""
  IN
  IF ~hasAudio /\ ~hasText
  THEN Throw(Error("Either questionText or questionAudioPath must be provided"))
  ELSE IF ~getRealtimeToken(env).ok THEN getRealtimeToken(env)
  ELSE IF ~env.gen.ok THEN Throw(RealtimeError(env.gen.exc))
  ELSE IF hasAudio
  THEN Ok([answer |-> env.gen.val.text,
           inputTranscript |-> env.gen.val.inputTranscript,
           inputType |-> "audio"])
  ELSE Ok([answer |-> env.gen.val.text,
           inputTranscript |-> NULL,
           inputType |-> "text"])

\* ------------------------------------------------------------------------
\* Texts.  tokenize() lowercases, turns every non-word character into a
\* space, splits on whitespace and drops empty tokens; it is tabulated on
\* the texts of the model.
\* ------------------------------------------------------------------------

tokenize(text) ==
  CASE text = "" -> << >>
    [] text = "?!" -> << >>
    [] text = "Paris" -> <<"paris">>
    [] text = "Paris." -> <<"paris">>
    [] text = "London" -> <<"london">>
    [] text = "paris paris paris" -> <<"paris", "paris", "paris">>
    [] text = "The capital is Paris" -> <<"the", "capital", "is", "paris">>
    [] text = "the capital of France is Paris" ->
         <<"the", "capital", "of", "france", "is", "paris">>

\* ------------------------------------------------------------------------
\* Fixed-point arithmetic: logarithms and exponentials in 1/LogUnit units
\* ------------------------------------------------------------------------
LogUnit == 100 * 100

\* Math.log(n) for the integers that occur, in 1/LogUnit units
LnInt(n) ==
  CASE n = 1 -> 0      [] n = 2 -> 6931   [] n = 3 -> 10986  [] n = 4 -> 13863
    [] n = 5 -> 16094  [] n = 6 -> 17918  [] n = 7 -> 19459  [] n = 8 -> 20794
    [] n = 16 -> 27726

RECURSIVE ExpSeries(_, _, _, _)
\* sum of the terms (-r)^k / k! from term number k on, in 1/LogUnit units
ExpSeries(r, k, term, acc) ==
  IF term = 0 \/ k > 12 THEN acc
  ELSE LET next == (term * r) \div (LogUnit * k) IN
       ExpSeries(r, k + 1, next,
                 IF k % 2 = 1 THEN acc - next ELSE acc + next)

RECURSIVE Halve(_, _)
Halve(v, k) == IF k = 0 THEN v ELSE Halve(v \div 2, k - 1)

\* Math.exp(-y) for y >= 0, argument and result in 1/LogUnit units
ExpNeg(y) ==
  LET k == y \div LnInt(2)
      r == y % LnInt(2)
  IN IF k > 30 THEN 0 ELSE Halve(ExpSeries(r, 1, LogUnit, LogUnit), k)

RECURSIVE ISqrtBetween(_, _, _)
ISqrtBetween(n, lo, hi) ==
  IF lo >= hi THEN lo
  ELSE LET mid == (lo + hi + 1) \div 2 IN
       IF mid * mid <= n THEN ISqrtBetween(n, mid, hi)
       ELSE ISqrtBetween(n, lo, mid - 1)


RECURSIVE SumSeq(_)
SumSeq(s) == IF s = << >> THEN 0 ELSE Head(s) + SumSeq(Tail(s))

\* ------------------------------------------------------------------------
\* BLEU (services/scoring/bleu.ts)
\* ------------------------------------------------------------------------
\* 1 / (1 + Math.exp(-steepness * (x - midpoint))), x in 1/Scale units,
\* result in 1/LogUnit units
Sigmoid(x, midpoint, steepness) ==
  LET z == (steepness * (x - midpoint) * LogUnit) \div Scale IN
  IF z >= 0
  THEN (LogUnit * LogUnit) \div (LogUnit + ExpNeg(z))
  ELSE (LogUnit * ExpNeg(-z)) \div (LogUnit + ExpNeg(-z))

normalizeWithSigmoid(rawScore) ==
  LET midpoint == Scale \div 5
      steepness == 10
      clampedScore == Max(0, Min(Scale, rawScore))
      sigmoid == Sigmoid(clampedScore, midpoint, steepness)
      sigmoidAt0 == Sigmoid(0, midpoint, steepness)
      sigmoidAt1 == Sigmoid(Scale, midpoint, steepness)
      normalized == ((sigmoid - sigmoidAt0) * Scale) \div (sigmoidAt1 - sigmoidAt0)
  IN Max(0, Min(Scale, normalized))

getNgrams(tokens, n) ==
  IF Len(tokens) < n THEN << >>
  ELSE [i \in 1..(Len(tokens) - n + 1) |-> SubSeq(tokens, i, i + n - 1)]

CountIn(g, ngrams) == Cardinality({i \in DOMAIN ngrams : ngrams[i] = g})

\* the same with every candidate n-gram the reference has counted in full
calculateClippedPrecision_Unclipped(candidateNgrams, referenceNgrams) ==
  [num |-> Cardinality({i \in DOMAIN candidateNgrams :
                          CountIn(candidateNgrams[i], referenceNgrams) > 0}),
   den |-> Len(candidateNgrams)]

\* the clipped count and the candidate n-gram count (the precision is their
\* quotient)
calculateClippedPrecision(candidateNgrams, referenceNgrams) ==
  LET distinct == {candidateNgrams[i] : i \in DOMAIN candidateNgrams}
      RECURSIVE Clipped(_)
      Clipped(S) ==
        IF S = {} THEN 0
        ELSE LET g == CHOOSE x \in S : TRUE IN
             Min(CountIn(g, candidateNgrams), CountIn(g, referenceNgrams))
               + Clipped(S \ {g})
  IN [num |-> Clipped(distinct), den |-> Len(candidateNgrams)]

\* Math.log of one precision of calculateRawSmoothBleuScore, 1/LogUnit units
SmoothLogPrecision(candidateTokens, referenceTokens, n) ==
  LET candidateNgrams == getNgrams(candidateTokens, n)
      referenceNgrams == getNgrams(referenceTokens, n)
  IN IF Len(candidateNgrams) = 0
     THEN 0 - n * LnInt(2)
     ELSE LET p == calculateClippedPrecision(candidateNgrams, referenceNgrams) IN
          IF p.num = 0 THEN 0 - n * LnInt(2)
          ELSE LnInt(p.num) - LnInt(p.den)

\* Math.log of calculateBrevityPenalty, 1/LogUnit units
LogBrevityPenalty(candidateLength, referenceLength) ==
  IF candidateLength >= referenceLength THEN 0
  ELSE LogUnit - (referenceLength * LogUnit) \div candidateLength

calculateRawSmoothBleuScore(candidate, reference, maxN) ==
  LET candidateTokens == tokenize(candidate)
      referenceTokens == tokenize(reference)
  IN IF Len(candidateTokens) = 0 \/ Len(referenceTokens) = 0 THEN 0
     ELSE LET logs == [n \in 1..maxN |->
                         SmoothLogPrecision(candidateTokens, referenceTokens, n)]
              meanLog == (0 - SumSeq(logs)) \div maxN
              bpLog == 0 - LogBrevityPenalty(Len(candidateTokens), Len(referenceTokens))
          IN (ExpNeg(meanLog + bpLog) * Scale) \div LogUnit

calculateSmoothBleuScore(candidate, reference) ==
  normalizeWithSigmoid(calculateRawSmoothBleuScore(candidate, reference, 4))

\* ------------------------------------------------------------------------
\* Cosine similarity (services/scoring/cosine.ts)
\* ------------------------------------------------------------------------
RECURSIVE Dot(_, _)
Dot(a, b) == IF a = << >> THEN 0 ELSE Head(a) * Head(b) + Dot(Tail(a), Tail(b))

\* dotProduct / (Math.sqrt(norm1) * Math.sqrt(norm2)), in 1/Scale units
cosineSimilarity(vec1, vec2) ==
  IF Len(vec1) # Len(vec2) THEN Throw(Error("Vectors must have same length"))
  ELSE LET dotProduct == Dot(vec1, vec2)
           norm1 == Dot(vec1, vec1)
           norm2 == Dot(vec2, vec2)
           denominator == ISqrtBetween(norm1 * norm2, 0, Min(norm1 * norm2, 46340))
       IN IF denominator = 0 THEN Ok(0)
          ELSE Ok((dotProduct * Scale) \div denominator)

RECURSIVE Distinct(_)
\* [...new Set(tokens)]: the distinct tokens in order of first occurrence
Distinct(tokens) ==
  IF tokens = << >> THEN << >>
  ELSE LET front == Distinct(SubSeq(tokens, 1, Len(tokens) - 1))
           last == tokens[Len(tokens)]
       IN IF \E i \in DOMAIN front : front[i] = last THEN front
          ELSE Append(front, last)

\* term frequencies freq / totalTokens, in units of 1/60: every token count
\* of the model's texts divides 3 * 4 * 5
createTfVector(tokens, vocabulary) ==
  [k \in DOMAIN vocabulary |->
     (CountIn(vocabulary[k], tokens) * (3 * 4 * 5)) \div Len(tokens)]

calculateTfIdfCosineSimilarity(text1, text2) ==
  LET tokens1 == tokenize(text1)
      tokens2 == tokenize(text2)
  IN IF Len(tokens1) = 0 \/ Len(tokens2) = 0 THEN 0
     ELSE LET vocabulary == Distinct(tokens1 \o tokens2)
              vec1 == createTfVector(tokens1, vocabulary)
              vec2 == createTfVector(tokens2, vocabulary)
          IN cosineSimilarity(vec1, vec2).val

\* generateEmbedding (services/llm): env.embeddingModel is EMBEDDING_MODEL
\* (or its default), env.embed the outcome of the two provider embed() calls
generateEmbedding(which, env) ==
  LET config == parseModelString(env.embeddingModel) IN
  IF ~config.ok THEN config
  ELSE LET key == getApiKey(config.val.provider, env) IN
       IF ~key.ok THEN key
       ELSE IF config.val.provider \notin {"openai", "google"}
       THEN Throw(Error("Embedding not supported for provider: "
                        \o config.val.provider \o ". Use openai or google."))
       ELSE IF env.embed.ok THEN Ok(env.embed.val[which])
       ELSE Throw(Error("Embedding generation failed: " \o ErrorMessage(env.embed.exc)))

\* variant: no catch, a failure of the embedding path reaches the caller
calculateEmbeddingCosineSimilarity_Rethrows(text1, text2, env) ==
  LET embedding1 == generateEmbedding(1, env)
      embedding2 == generateEmbedding(2, env)
  IN IF ~embedding1.ok THEN embedding1
     ELSE IF ~embedding2.ok THEN embedding2
     ELSE cosineSimilarity(embedding1.val, embedding2.val)

\* variant: the score of a failed embedding path is 0
calculateEmbeddingCosineSimilarity_Zero(text1, text2, env) ==
  LET embedding1 == generateEmbedding(1, env)
      embedding2 == generateEmbedding(2, env)
  IN IF ~embedding1.ok \/ ~embedding2.ok THEN Ok(0)
     ELSE LET similarity == cosineSimilarity(embedding1.val, embedding2.val) IN
          IF similarity.ok THEN similarity ELSE Ok(0)

\* the try block ends at the first exception, of either embedding call or of
\* cosineSimilarity; the catch block returns the TF-IDF score
calculateEmbeddingCosineSimilarity(text1, text2, env) ==
  LET embedding1 == generateEmbedding(1, env)
      embedding2 == generateEmbedding(2, env)
  IN IF ~embedding1.ok \/ ~embedding2.ok
     THEN Ok(calculateTfIdfCosineSimilarity(text1, text2))
     ELSE LET similarity == cosineSimilarity(embedding1.val, embedding2.val) IN
          IF similarity.ok THEN similarity
          ELSE Ok(calculateTfIdfCosineSimilarity(text1, text2))

\* ------------------------------------------------------------------------
\* LLM-as-judge with structured output (services/scoring/llm-judge.ts)
\* ------------------------------------------------------------------------
InUnit(x) == x >= 0 /\ x <= Scale

\* variant: a schema without the range constraints
llmJudgeResponseSchema_NoRange(object) == TRUE

\* the zod schema generateObject validates the provider's object against
llmJudgeResponseSchema(object) ==
  /\ InUnit(object.score)
  /\ \A k \in DOMAIN object.breakdown : InUnit(object.breakdown[k])

\* env.judgeModel is LLM_JUDGE_MODEL (or its default); env.judge the outcome
\* of the provider call behind generateObject
calculateLlmJudgeScore(question, generatedAnswer, expectedAnswer, env) ==
  LET failed(e) == [score |-> Scale \div 2,
                    reason |-> "Evaluation failed: " \o ErrorMessage(e)
                               \o ". Defaulting to neutral score."]
      config == parseModelString(env.judgeModel)
  IN IF ~config.ok THEN failed(config.exc)
     ELSE LET model == getModel(config.val, env) IN
          IF ~model.ok THEN failed(model.exc)
          ELSE IF ~env.judge.ok THEN failed(env.judge.exc)
          ELSE IF ~llmJudgeResponseSchema(env.judge.val)
          THEN failed(Error("No object generated: response did not match schema."))
          ELSE [score |-> Max(0, Min(Scale, env.judge.val.score)),
                reason |-> env.judge.val.reason]

\* ------------------------------------------------------------------------
\* LLM-as-judge with a free-text verdict (generateText, parseJudgeResponse,
\* extractScoreFromText).  A value of the parsed JSON keeps its JavaScript
\* type.
\* ------------------------------------------------------------------------
JsNum(n) == [type |-> "number", nan |-> FALSE, val |-> n]
JsStr(s) == [type |-> "string", str |-> s]
JsUndefined == [type |-> "undefined"]
JsObject(fields) == [type |-> "object", fields |-> fields]

\* truthiness of a JSON value
JsTruthy(v) ==
  CASE v.type = "string" -> v.str # ""
    [] v.type = "number" -> ~v.nan /\ v.val # 0
    [] v.type = "object" -> TRUE
    [] OTHER -> FALSE

\* parseFloat on the strings the verdicts of the model hold
parseFloat(str) ==
  CASE str = "0.8" -> JsNum(800)
    [] str = "0.8." -> JsNum(800)
    [] str = "0.9" -> JsNum(900)
    [] str = "0.4" -> JsNum(400)
    [] str = "7" -> JsNum(7 * Scale)
    [] OTHER -> [type |-> "number", nan |-> TRUE, val |-> 0]

LongReplyPart == "The generated answer covers the expected points. "
\* a reply of 245 characters without JSON and without a score
LongReply ==
  LongReplyPart \o LongReplyPart \o LongReplyPart \o LongReplyPart \o LongReplyPart

\* text.slice(0, 200)
Slice200(text) ==
  IF text = LongReply
  THEN LongReplyPart \o LongReplyPart \o LongReplyPart \o LongReplyPart \o "The "
  ELSE text

Verdict(score, breakdown, reason, explanation) ==
  [kind |-> "object", score |-> score, breakdown |-> breakdown,
   reason |-> reason, explanation |-> explanation]

\* text.match(/\{[\s\S]*\}/) followed by JSON.parse, on the replies of the
\* model: no match, a match that JSON.parse rejects, or the parsed object
JsonMatch(text) ==
  CASE text = "{\"score\": 0.73, \"reason\": \"Mostly right.\"}" ->
         Verdict(JsNum(730), JsUndefined, JsStr("Mostly right."), JsUndefined)
    [] text = "{\"score\": 1.5, \"reason\": \"Perfect.\"}" ->
         Verdict(JsNum(1500), JsUndefined, JsStr("Perfect."), JsUndefined)
    [] text = "{\"score\": -0.2, \"explanation\": \"Wrong.\"}" ->
         Verdict(JsNum(0 - 200), JsUndefined, JsUndefined, JsStr("Wrong."))
    [] text = "{\"score\": \"0.8\"}" ->
         Verdict(JsStr("0.8"), JsUndefined, JsUndefined, JsUndefined)
    [] text = "{\"score\": \"high\", \"breakdown\": {\"accuracy\": 0.6, \"relevance\": 0.8}}" ->
         Verdict(JsStr("high"), JsObject(<<JsNum(600), JsNum(800)>>),
                 JsUndefined, JsUndefined)
    [] text = "{\"score\": null, \"breakdown\": {\"accuracy\": \"good\"}}" ->
         Verdict([type |-> "null"], JsObject(<<JsStr("good")>>), JsUndefined, JsUndefined)
    [] text = "{\"verdict\": \"good\"}" ->
         Verdict(JsUndefined, JsUndefined, JsUndefined, JsUndefined)
    [] text = "{\"score\": 0.9, \"reason\": 5}" ->
         Verdict(JsNum(900), JsUndefined, JsNum(5 * Scale), JsUndefined)
    [] text = "{score: 0.8}" -> [kind |-> "invalid"]
    [] OTHER -> [kind |-> "none"]

\* what the four scorePatterns capture in a reply, in their order; NULL where
\* a pattern does not match
ScorePatternCaptures(text) ==
  CASE text = "{score: 0.8}" -> <<"0.8", NULL, NULL, NULL>>
    [] text = "Score: 0.8." -> <<"0.8.", NULL, NULL, NULL>>
    [] text = "I would give this 0.9 out of 1" -> <<NULL, NULL, "0.9", NULL>>
    [] text = "score: 7, rating: 0.4" -> <<"7", NULL, NULL, "0.4">>
    [] text = "score: 7, score: 0.8" -> <<"7", NULL, NULL, NULL>>
    [] text = "Rating: ." -> <<NULL, NULL, NULL, ".">>
    [] OTHER -> <<NULL, NULL, NULL, NULL>>

\* the replies of the judge model
JudgeTexts ==
  {"{\"score\": 0.73, \"reason\": \"Mostly right.\"}",
   "{\"score\": 1.5, \"reason\": \"Perfect.\"}",
   "{\"score\": -0.2, \"explanation\": \"Wrong.\"}",
   "{\"score\": \"0.8\"}",
   "{\"score\": \"high\", \"breakdown\": {\"accuracy\": 0.6, \"relevance\": 0.8}}",
   "{\"score\": null, \"breakdown\": {\"accuracy\": \"good\"}}",
   "{\"verdict\": \"good\"}",
   "{\"score\": 0.9, \"reason\": 5}",
   "{score: 0.8}",
   "Score: 0.8.",
   "I would give this 0.9 out of 1",
   "score: 7, rating: 0.4",
   "score: 7, score: 0.8",
   "Rating: .",
   "The answer is fine.",
   "",
   LongReply}

extractScoreFromText(text) ==
  LET captures == ScorePatternCaptures(text)
      usable == {k \in DOMAIN captures :
                   /\ captures[k] # NULL
                   /\ ~parseFloat(captures[k]).nan
                   /\ parseFloat(captures[k]).val >= 0
                   /\ parseFloat(captures[k]).val <= Scale}
  IN IF usable # {}
     THEN [score |-> parseFloat(captures[CHOOSE k \in usable :
                                           \A j \in usable : k <= j]).val,
           reason |-> JsStr(Slice200(text))]
     ELSE [score |-> Scale \div 2,
           reason |-> JsStr("Could not parse evaluation. Response: " \o Slice200(text))]

\* the mean of the numbers among the values of parsed.breakdown
BreakdownMean(breakdown) ==
  LET values == SelectSeq(breakdown.fields, LAMBDA v : v.type = "number")
  IN IF Len(values) > 0
     THEN SumSeq([k \in DOMAIN values |-> values[k].val]) \div Len(values)
     ELSE Scale \div 2

parseJudgeResponse(text) ==
  LET parsed == JsonMatch(text) IN
  IF parsed.kind # "object" THEN extractScoreFromText(text)
  ELSE LET coerced == IF parsed.score.type = "string"
                      THEN parseFloat(parsed.score.str) ELSE parsed.score
           score == IF coerced.type # "number" \/ coerced.nan
                    THEN IF JsTruthy(parsed.breakdown)
                         THEN BreakdownMean(parsed.breakdown)
                         ELSE Scale \div 2
                    ELSE coerced.val
       IN [score |-> Max(0, Min(Scale, score)),
           reason |-> IF JsTruthy(parsed.reason) THEN parsed.reason
                      ELSE IF JsTruthy(parsed.explanation) THEN parsed.explanation
                      ELSE JsStr("No explanation provided")]

\* calculateLlmJudgeScore of the free-text judge: env.judgeText is the outcome
\* of the provider call behind generateText
calculateLlmJudgeScoreText(question, generatedAnswer, expectedAnswer, env) ==
  LET failed(e) == [score |-> Scale \div 2,
                    reason |-> JsStr("Evaluation failed: " \o ErrorMessage(e)
                                     \o ". Defaulting to neutral score.")]
      config == parseModelString(env.judgeModel)
  IN IF ~config.ok THEN failed(config.exc)
     ELSE LET model == getModel(config.val, env) IN
          IF ~model.ok THEN failed(model.exc)
          ELSE IF ~env.judgeText.ok THEN failed(env.judgeText.exc)
          ELSE parseJudgeResponse(env.judgeText.val)

\* ------------------------------------------------------------------------
\* Scoring aggregator (services/scoring/index.ts)
\* ------------------------------------------------------------------------
calculateScores(input, env) ==
  LET bleu == calculateSmoothBleuScore(input.generatedAnswer, input.expectedAnswer)
      TryCatch(c) == IF c.ok THEN c.val
                     ELSE calculateTfIdfCosineSimilarity(input.generatedAnswer,
                                                         input.expectedAnswer)
      cosine == TryCatch(calculateEmbeddingCosineSimilarity(input.generatedAnswer,
                                                            input.expectedAnswer, env))
      llmResult == calculateLlmJudgeScore(input.question, input.generatedAnswer,
                                          input.expectedAnswer, env)
  IN [bleu |-> bleu, cosine |-> cosine,
      llmScore |-> llmResult.score, llmReason |-> llmResult.reason]

\* ------------------------------------------------------------------------
\* Per-case pipeline (jobs/worker/index.ts)
\* ------------------------------------------------------------------------
\* variant: the audio placeholder comes before the text
getQuestionText_AudioFirst(testCase) ==
  IF Truthy(testCase.questionAudioPath)
  THEN "[Audio: " \o testCase.questionAudioPath \o "]"
  ELSE IF Truthy(testCase.questionText) THEN testCase.questionText
  ELSE IF Truthy(testCase.questionImagePath)
  THEN "[Image: " \o testCase.questionImagePath \o "]"
  ELSE "[No question provided]"

getQuestionText(testCase) ==
  IF Truthy(testCase.questionText) THEN testCase.questionText
  ELSE IF Truthy(testCase.questionAudioPath)
  THEN "[Audio: " \o testCase.questionAudioPath \o "]"
  ELSE IF Truthy(testCase.questionImagePath)
  THEN "[Image: " \o testCase.questionImagePath \o "]"
  ELSE "[No question provided]"

\* variant: a case without audio counts as a text case
getInputType_TextDefault(testCase) ==
  IF Truthy(testCase.questionAudioPath) /\ Trim(testCase.questionAudioPath) # ""
  THEN "audio"
  ELSE "text"

getInputType(testCase) ==
  IF Truthy(testCase.questionAudioPath) /\ Trim(testCase.questionAudioPath) # ""
  THEN "audio"
  ELSE IF Truthy(testCase.questionText) /\ Trim(testCase.questionText) # ""
  THEN "text"
  ELSE "none"

\* the generation step of processTestCase.  out is the answer and the question
\* the scorers get, or the exception; calls lists the generation calls made,
\* each with its transport and the input the transport is given
GenerateStep(testRun, testCase, contextData, env) ==
  LET inputType == getInputType(testCase)
      questionDisplay == getQuestionText(testCase)
  IN
  IF inputType = "none"
  THEN [out |-> Throw(Error("Test case has no question (text or audio)")),
        calls |-> << >>]
  ELSE IF inputType = "audio"
  THEN LET result == generateAnswerRealtime(
                       [prompt |-> testRun.prompt, context |-> contextData,
                        questionText |-> testCase.questionText,
                        questionAudioPath |-> testCase.questionAudioPath], env)
       IN [out |-> IF ~result.ok THEN result
                   ELSE Ok([answer |-> result.val.answer,
                            questionForScoring |->
                              OrElse(result.val.inputTranscript, questionDisplay)]),
           calls |-> <<[transport |-> "realtime", input |-> "audio"]>>]
  ELSE IF selectedTextTransport(testRun.llmModel) = "realtime"
  THEN LET result == generateAnswerRealtime(
                       [prompt |-> testRun.prompt, context |-> contextData,
                        questionText |-> testCase.questionText,
                        questionAudioPath |-> NULL], env)
       IN [out |-> IF ~result.ok THEN result
                   ELSE Ok([answer |-> result.val.answer,
                            questionForScoring |->
                              OrElse(testCase.questionText, questionDisplay)]),
           calls |-> <<[transport |-> "realtime", input |-> "text"]>>]
  ELSE IF ~Truthy(testCase.questionText) \/ Trim(testCase.questionText) = ""
  THEN [out |-> Throw(Error("Text test case is missing questionText")),
        calls |-> << >>]
  ELSE LET answer == generateAnswer(
                       [model |-> testRun.llmModel, prompt |-> testRun.prompt,
                        question |-> testCase.questionText,
                        context |-> contextData], env)
       IN [out |-> IF ~answer.ok THEN answer
                   ELSE Ok([answer |-> answer.val,
                            questionForScoring |-> testCase.questionText]),
           calls |-> <<[transport |-> "vercel", input |-> "text"]>>]

processTestCase(testRun, testCase, contextData, env) ==
  LET Record(answer, scores) ==
        [runId |-> testRun.id,
         caseId |-> testCase.id,
         status |-> "COMPLETED",
         failReason |-> NULL,
         answer |-> answer,
         bleuScore |-> scores.bleu,
         cosineSimScore |-> scores.cosine,
         llmScore |-> scores.llmScore,
         llmScoreReason |-> scores.llmReason]
      Score(gen) ==
        IF ~gen.ok THEN gen
        ELSE Ok(Record(gen.val.answer,
                       calculateScores(
                         [generatedAnswer |-> gen.val.answer,
                          expectedAnswer |-> testCase.expectedAnswer,
                          question |-> gen.val.questionForScoring,
                          model |-> testRun.llmModel], env)))
  IN Score(GenerateStep(testRun, testCase, contextData, env).out)

\* variant: the answer of a failed case is the bare message
FailedResult_NoPrefix(testRun, testCase, errorMessage) ==
  [runId |-> testRun.id,
   caseId |-> testCase.id,
   status |-> "FAILED",
   failReason |-> errorMessage,
   answer |-> errorMessage,
   bleuScore |-> 0,
   cosineSimScore |-> 0,
   llmScore |-> 0,
   llmScoreReason |-> "Processing failed: " \o errorMessage]

FailedResult(testRun, testCase, errorMessage) ==
  [runId |-> testRun.id,
   caseId |-> testCase.id,
   status |-> "FAILED",
   failReason |-> errorMessage,
   answer |-> "[ERROR] " \o errorMessage,
   bleuScore |-> 0,
   cosineSimScore |-> 0,
   llmScore |-> 0,
   llmScoreReason |-> "Processing failed: " \o errorMessage]

\* variant: a failed case yields null, as the function's doc comment says
processTestCaseSafe_ReturnsNull(testRun, testCase, contextData, env) ==
  LET TryCatch(r) == IF r.ok THEN r.val ELSE NullObject
  IN TryCatch(processTestCase(testRun, testCase, contextData, env))

processTestCaseSafe(testRun, testCase, contextData, env) ==
  LET TryCatch(r) == IF r.ok THEN r.val
                     ELSE FailedResult(testRun, testCase, ErrorMessage(r.exc))
  IN TryCatch(processTestCase(testRun, testCase, contextData, env))

\* ------------------------------------------------------------------------
\* Context loader (services/pdf): fs maps a file path to the outcome of
\* loadFileAsText
\* ------------------------------------------------------------------------
RECURSIVE JoinWith(_, _)
JoinWith(parts, sep) ==
  IF parts = << >> THEN ""
  ELSE IF Len(parts) = 1 THEN parts[1]
  ELSE parts[1] \o sep \o JoinWith(Tail(parts), sep)

\* variant: a document whose file fails to load is skipped silently
ContextParts_SkipsFailure(ctx, fs) ==
  LET textPart == IF Truthy(ctx.text)
                  THEN <<"[Text Context]\n" \o ctx.text>> ELSE << >>
  IN IF ~Truthy(ctx.filePath) THEN textPart
     ELSE IF fs[ctx.filePath].ok
     THEN textPart \o <<"[File: " \o ctx.filePath \o "]\n" \o fs[ctx.filePath].val>>
     ELSE textPart

ContextParts(ctx, fs) ==
  LET textPart == IF Truthy(ctx.text)
                  THEN <<"[Text Context]\n" \o ctx.text>> ELSE << >>
  IN IF ~Truthy(ctx.filePath) THEN textPart
     ELSE IF fs[ctx.filePath].ok
     THEN textPart \o <<"[File: " \o ctx.filePath \o "]\n" \o fs[ctx.filePath].val>>
     ELSE textPart \o <<"[Error loading context " \o ctx.id \o "]: "
                         \o ErrorMessage(fs[ctx.filePath].exc)>>

RECURSIVE AllContextParts(_, _)
AllContextParts(contexts, fs) ==
  IF contexts = << >> THEN << >>
  ELSE ContextParts(Head(contexts), fs) \o AllContextParts(Tail(contexts), fs)

loadContexts(contexts, fs) == JoinWith(AllContextParts(contexts, fs), "\n\n---\n\n")

\* ------------------------------------------------------------------------
\* Stored data of the model
\* ------------------------------------------------------------------------
CaseId(i) == "c" \o ToString(i)

TextCase(i) ==
  [id |-> CaseId(i), questionText |-> "What is the capital of France?",
   questionAudioPath |-> NULL, questionImagePath |-> NULL,
   expectedAnswer |-> "Paris"]

AudioCase(i) ==
  [id |-> CaseId(i), questionText |-> NULL,
   questionAudioPath |-> "audio/q.wav", questionImagePath |-> NULL,
   expectedAnswer |-> "Paris"]

ImageCase(i) ==
  [id |-> CaseId(i), questionText |-> NULL,
   questionAudioPath |-> NULL, questionImagePath |-> "img/q.png",
   expectedAnswer |-> "Paris"]

\* the suites a stored run can have: up to MaxCases cases, all text or mixed
Suites ==
  UNION {{[i \in 1..n |-> TextCase(i)],
          [i \in 1..n |-> IF i % 3 = 1 THEN TextCase(i)
                          ELSE IF i % 3 = 2 THEN AudioCase(i) ELSE ImageCase(i)]} :
           n \in 0..MaxCases}

SuiteContexts ==
  <<[id |-> "ctx1", text |-> "Patient info", filePath |-> NULL],
    [id |-> "ctx2", text |-> NULL, filePath |-> "missing.pdf"]>>

FileSystem ==
  [f \in {"missing.pdf"} |-> Throw(Error("File not found: /public/files/missing.pdf"))]

\* ids a trigger can name: "r1" is stored, "r0" is not
ExistingRunIds == {"r1"}

\* what the providers do for one case while a run is processed
ProviderEnv(gen) ==
  [gen |-> gen,
   embed |-> Ok(<<(<<1, 2>>), (<<2, 1>>)>>),
   judge |-> Ok([score |-> 900,
                 breakdown |-> [accuracy |-> 900, completeness |-> 900,
                                relevance |-> 900, coherence |-> 900],
                 reason |-> "Matches the expected answer."]),
   apiKeys |-> {"OPENAI_API_KEY"},
   embeddingModel |-> "openai:text-embedding-3-small",
   judgeModel |-> "openai:gpt-4o-mini"]

\* the sets of cases whose generation call throws: none, the first, the
\* last, all
FailingSets(n) == {F \cap (1..n) : F \in {{}, {1}, {n}, 1..n}}

\* a TestRun row with its suite, as the route that creates runs stored it
StoredRun(cases) ==
  [id |-> "r1", llmModel |-> "openai:gpt-5-mini-2025-08-07",
   prompt |-> "You are a nurse assistant.",
   completedAt |-> NULL,
   suite |-> [testCases |-> cases, contexts |-> SuiteContexts]]

\* ------------------------------------------------------------------------
\* State
\* ------------------------------------------------------------------------
VARIABLES
  queue,         \* the "test-run" queue: jobs [id, testRunId] not yet taken
  jobCount,      \* number of jobs added so far (the last job id)
  testRuns,      \* TestRun table: run id -> stored run
  providers,     \* what the providers do for each case of the stored run
  dbResults,     \* TestRunResult table: rows [row, by], by = the writing job
  pc,            \* per worker slot: position of the job handler
  job,           \* per worker slot: the job being handled
  testRun,       \* per worker slot: processTestRun's fetched testRun
  contextData,   \* per worker slot: processTestRun's contextData
  phase,         \* per worker slot: per case "queued" | "running" | "resolved"
  activeCount,   \* per worker slot: p-limit's activeCount
  results,       \* per worker slot: per case the value its promise resolved to
  validResults,  \* per worker slot: processTestRun's validResults
  error,         \* per worker slot: the exception the handler threw
  probe          \* one case pipeline run on its own: inputs and outcome

vars == <<queue, jobCount, testRuns, providers, dbResults, pc, job, testRun, contextData,
          phase, activeCount, results, validResults, error, probe>>

dbVars == <<testRuns, dbResults>>
localVars == <<testRun, contextData, phase, activeCount, results, validResults>>

Workers == 1..WorkerConcurrency

NoProbe == [stage |-> "off"]

Init ==
  /\ queue = << >>
  /\ jobCount = 0
  /\ testRuns \in [ExistingRunIds -> {StoredRun(cases) : cases \in Suites}]
  \* the generation call throws for the cases of a set F; no provider is
  \* called for a case without a question
  /\ \E F \in FailingSets(Len(testRuns["r1"].suite.testCases)) :
       providers = [i \in DOMAIN testRuns["r1"].suite.testCases |->
                      IF i \in F /\ getInputType(testRuns["r1"].suite.testCases[i]) # "none"
                      THEN ProviderEnv(Throw(Error("Response timeout")))
                      ELSE ProviderEnv(Ok([text |-> "Paris",
                                           inputTranscript |-> "capital of France"]))]
  /\ dbResults = << >>
  /\ pc = [w \in Workers |-> "idle"]
  /\ job = [w \in Workers |-> NullObject]
  /\ testRun = [w \in Workers |-> NullObject]
  /\ contextData = [w \in Workers |-> NULL]
  /\ phase = [w \in Workers |-> << >>]
  /\ activeCount = [w \in Workers |-> 0]
  /\ results = [w \in Workers |-> << >>]
  /\ validResults = [w \in Workers |-> << >>]
  /\ error = [w \in Workers |-> NullObject]
  /\ probe = NoProbe

\* ------------------------------------------------------------------------
\* Queue trigger: GET /api/test-worker?testRunId=...
\* ------------------------------------------------------------------------
Trigger(testRunId) ==
  /\ jobCount < MaxTriggers
  /\ testRunId # ""
  /\ jobCount' = jobCount + 1
  /\ queue' = Append(queue, [id |-> jobCount + 1, testRunId |-> testRunId])
  /\ UNCHANGED <<providers, dbVars, pc, job, localVars, error, probe>>

\* ------------------------------------------------------------------------
\* BullMQ worker (jobs/test-run.ts): a free slot takes the next job
\* ------------------------------------------------------------------------
Free(w) == pc[w] \in {"idle", "done", "failed"}

\* the slots are interchangeable: the job goes to the first free one
TakeJob(w) ==
  /\ Free(w)
  /\ \A v \in 1..(w - 1) : ~Free(v)
  /\ queue # << >>
  /\ Head(queue).testRunId # ""
  /\ job' = [job EXCEPT ![w] = Head(queue)]
  /\ queue' = Tail(queue)
  /\ pc' = [pc EXCEPT ![w] = "fetch"]
  /\ testRun' = [testRun EXCEPT ![w] = NullObject]
  /\ contextData' = [contextData EXCEPT ![w] = NULL]
  /\ phase' = [phase EXCEPT ![w] = << >>]
  /\ activeCount' = [activeCount EXCEPT ![w] = 0]
  /\ results' = [results EXCEPT ![w] = << >>]
  /\ validResults' = [validResults EXCEPT ![w] = << >>]
  /\ error' = [error EXCEPT ![w] = NullObject]
  /\ UNCHANGED <<jobCount, providers, dbVars, probe>>

\* the handler throws: the job is failed and the error surfaces to BullMQ
Fails(w, e) ==
  /\ pc' = [pc EXCEPT ![w] = "failed"]
  /\ error' = [error EXCEPT ![w] = e]

\* ------------------------------------------------------------------------
\* processTestRun (jobs/worker/index.ts)
\* ------------------------------------------------------------------------
\* prisma.testRun.findUnique with the suite, its cases and contexts
fetchTestRunWithRelations(testRunId) ==
  IF testRunId \in DOMAIN testRuns THEN testRuns[testRunId] ELSE NullObject

FetchFound(w) ==
  /\ pc[w] = "fetch"
  /\ fetchTestRunWithRelations(job[w].testRunId) # NullObject
  /\ testRun' = [testRun EXCEPT ![w] = fetchTestRunWithRelations(job[w].testRunId)]
  /\ pc' = [pc EXCEPT ![w] = "context"]
  /\ UNCHANGED <<queue, jobCount, providers, dbVars, job, contextData, phase, activeCount,
                 results, validResults, error, probe>>

\* variant: a missing run is treated as nothing to do
FetchNotFound_Returns(w) ==
  /\ pc[w] = "fetch"
  /\ fetchTestRunWithRelations(job[w].testRunId) = NullObject
  /\ pc' = [pc EXCEPT ![w] = "done"]
  /\ UNCHANGED <<queue, jobCount, providers, dbVars, job, localVars, error, probe>>

FetchNotFound(w) ==
  /\ pc[w] = "fetch"
  /\ fetchTestRunWithRelations(job[w].testRunId) = NullObject
  /\ Fails(w, Error("TestRun not found: " \o job[w].testRunId))
  /\ UNCHANGED <<queue, jobCount, providers, dbVars, job, localVars, probe>>

\* the database call itself rejects
FetchThrows(w) ==
  /\ pc[w] = "fetch"
  /\ Fails(w, Error("Can't reach database server"))
  /\ UNCHANGED <<queue, jobCount, providers, dbVars, job, localVars, probe>>

\* variant: the limiter admits one function too many
pLimitAdmits_OneMore(active) == active <= LLM_CONCURRENCY

\* p-limit: a queued function is run only while activeCount < concurrency
pLimitAdmits(active) == active < LLM_CONCURRENCY

\* p-limit runs queued functions in FIFO order for as long as it admits one;
\* it does so when a function is handed to it and when a running one settles:
\* a queued function is run when the count, raised by the queued functions
\* ahead of it, admits it
pLimitNext(ph, active) ==
  LET run == {i \in DOMAIN ph :
                /\ ph[i] = "queued"
                /\ \A k \in 0..Cardinality({q \in 1..(i - 1) : ph[q] = "queued"}) :
                     pLimitAdmits(active + k)}
  IN [phase |-> [i \in DOMAIN ph |-> IF i \in run THEN "running" ELSE ph[i]],
      activeCount |-> active + Cardinality(run)]

\* loadContexts, then pLimit(LLM_CONCURRENCY) and the map that hands every
\* case to the limiter
LoadContexts(w) ==
  LET cases == testRun[w].suite.testCases
      started == pLimitNext([i \in DOMAIN cases |-> "queued"], 0)
  IN
  /\ pc[w] = "context"
  /\ contextData' = [contextData EXCEPT ![w] =
                       loadContexts(testRun[w].suite.contexts, FileSystem)]
  /\ phase' = [phase EXCEPT ![w] = started.phase]
  /\ activeCount' = [activeCount EXCEPT ![w] = started.activeCount]
  /\ results' = [results EXCEPT ![w] = [i \in DOMAIN cases |-> NullObject]]
  /\ pc' = [pc EXCEPT ![w] = "cases"]
  /\ UNCHANGED <<queue, jobCount, providers, dbVars, job, testRun, validResults, error, probe>>

\* variant: no catch around processTestCase, so that the exception of a case
\* rejects Promise.all and processTestRun rethrows it
ResolveCase_Rejects(w, i) ==
  LET r == processTestCase(testRun[w], testRun[w].suite.testCases[i],
                           contextData[w], providers[i])
      next == pLimitNext([phase[w] EXCEPT ![i] = "resolved"], activeCount[w] - 1)
  IN
  /\ pc[w] = "cases"
  /\ i \in DOMAIN phase[w]
  /\ phase[w][i] = "running"
  /\ phase' = [phase EXCEPT ![w] = next.phase]
  /\ activeCount' = [activeCount EXCEPT ![w] = next.activeCount]
  /\ IF r.ok
     THEN /\ results' = [results EXCEPT ![w][i] = r.val]
          /\ UNCHANGED <<pc, error>>
     ELSE /\ Fails(w, r.exc)
          /\ UNCHANGED results
  /\ UNCHANGED <<queue, jobCount, providers, dbVars, job, testRun, contextData,
                 validResults, probe>>

\* the promise of a running case settles with what processTestCaseSafe
\* returns; p-limit takes the slot back and runs the next queued case
ResolveCase(w, i) ==
  /\ pc[w] = "cases"
  /\ i \in DOMAIN phase[w]
  /\ phase[w][i] = "running"
  /\ results' = [results EXCEPT ![w][i] =
                   processTestCaseSafe(testRun[w], testRun[w].suite.testCases[i],
                                       contextData[w], providers[i])]
  /\ LET next == pLimitNext([phase[w] EXCEPT ![i] = "resolved"], activeCount[w] - 1) IN
       /\ phase' = [phase EXCEPT ![w] = next.phase]
       /\ activeCount' = [activeCount EXCEPT ![w] = next.activeCount]
  /\ UNCHANGED <<queue, jobCount, providers, dbVars, pc, job, testRun, contextData,
                 validResults, error, probe>>

\* results.filter(r => r !== null)
FilterValid(rs) == SelectSeq(rs, LAMBDA r : r # NullObject)

\* variant: Promise.race in place of Promise.all
AllResolved_Any(w) == \E i \in DOMAIN phase[w] : phase[w][i] = "resolved"

AllResolved(w) == \A i \in DOMAIN phase[w] : phase[w][i] = "resolved"

\* prisma.testRunResult.createMany({data})
createMany(data, by) == dbResults \o [k \in DOMAIN data |-> [row |-> data[k], by |-> by]]

\* Promise.all has resolved: filter, then one createMany when there is
\* anything to save
SaveResults(w) ==
  /\ pc[w] = "cases"
  /\ AllResolved(w)
  /\ validResults' = [validResults EXCEPT ![w] = FilterValid(results[w])]
  /\ dbResults' = IF Len(FilterValid(results[w])) > 0
                  THEN createMany(FilterValid(results[w]), job[w].id)
                  ELSE dbResults
  /\ pc' = [pc EXCEPT ![w] = "update"]
  /\ UNCHANGED <<queue, jobCount, providers, testRuns, job, testRun, contextData, phase,
                 activeCount, results, error, probe>>

\* createMany rejects: nothing is written, the catch block rethrows
SaveThrows(w) ==
  /\ pc[w] = "cases"
  /\ AllResolved(w)
  /\ Len(FilterValid(results[w])) > 0
  /\ validResults' = [validResults EXCEPT ![w] = FilterValid(results[w])]
  /\ Fails(w, Error("Can't reach database server"))
  /\ UNCHANGED <<queue, jobCount, providers, dbVars, job, testRun, contextData, phase,
                 activeCount, results, probe>>

\* new Date() at the moment job j marks its run completed
Now(j) == "t" \o ToString(j)

\* variant: the run is marked completed only when no case failed
MarkCompleted_UnlessFailed(w) ==
  /\ pc[w] = "update"
  /\ testRuns' = IF \E k \in DOMAIN validResults[w] : validResults[w][k].status = "FAILED"
                 THEN testRuns
                 ELSE [testRuns EXCEPT ![job[w].testRunId].completedAt = Now(job[w].id)]
  /\ pc' = [pc EXCEPT ![w] = "done"]
  /\ UNCHANGED <<queue, jobCount, providers, dbResults, job, localVars, error, probe>>

\* prisma.testRun.update({data: {completedAt: new Date()}})
MarkCompleted(w) ==
  /\ pc[w] = "update"
  /\ testRuns' = [testRuns EXCEPT ![job[w].testRunId].completedAt = Now(job[w].id)]
  /\ pc' = [pc EXCEPT ![w] = "done"]
  /\ UNCHANGED <<queue, jobCount, providers, dbResults, job, localVars, error, probe>>

MarkThrows(w) ==
  /\ pc[w] = "update"
  /\ Fails(w, Error("Can't reach database server"))
  /\ UNCHANGED <<queue, jobCount, providers, dbVars, job, localVars, probe>>

Next ==
  \/ \E id \in {"r0", "r1"} : Trigger(id)
  \/ \E w \in Workers : TakeJob(w)
  \/ \E w \in Workers : FetchFound(w)
  \/ \E w \in Workers : FetchNotFound(w)
  \/ \E w \in Workers : FetchThrows(w)
  \/ \E w \in Workers : LoadContexts(w)
  \/ \E w \in Workers, i \in 1..(MaxCases + 1) : ResolveCase(w, i)
  \/ \E w \in Workers : SaveResults(w)
  \/ \E w \in Workers : SaveThrows(w)
  \/ \E w \in Workers : MarkCompleted(w)
  \/ \E w \in Workers : MarkThrows(w)

Spec == Init /\ [][Next]_vars

\* a step LoadContexts(w), told by what it does to pc and phase
Starts(w) ==
  /\ pc[w] = "context"
  /\ phase' = [phase EXCEPT ![w] =
                 pLimitNext([i \in DOMAIN testRun[w].suite.testCases |-> "queued"], 0).phase]
  /\ pc' = [pc EXCEPT ![w] = "cases"]

\* a step ResolveCase(w, i), told by what it does to pc and phase
Settles(w, i) ==
  /\ pc[w] = "cases"
  /\ i \in DOMAIN phase[w]
  /\ phase[w][i] = "running"
  /\ phase' = [phase EXCEPT ![w] =
                 pLimitNext([phase[w] EXCEPT ![i] = "resolved"], activeCount[w] - 1).phase]
  /\ UNCHANGED pc

\* under the scheduling of the event loop a handler that can take a step
\* eventually takes one (provider and database calls return or reject);
\* every step of a handler changes pc or phase
FairSpec ==
  Spec /\ \A w \in Workers :
    WF_<<pc, phase>>(\/ TakeJob(w)
                     \/ FetchFound(w) \/ FetchNotFound(w) \/ FetchThrows(w)
                     \/ Starts(w)
                     \/ \E i \in 1..(MaxCases + 1) : Settles(w, i)
                     \/ SaveResults(w) \/ SaveThrows(w)
                     \/ MarkCompleted(w) \/ MarkThrows(w))

\* ------------------------------------------------------------------------
\* One case pipeline on its own: processTestCaseSafe applied to every
\* combination of run model, test case and provider behaviour
\* ------------------------------------------------------------------------

ProbeCases ==
  {TextCase(1), AudioCase(1), ImageCase(1),
   [TextCase(1) EXCEPT !.questionText = " "],
   [TextCase(1) EXCEPT !.questionAudioPath = "audio/q.wav"],
   [AudioCase(1) EXCEPT !.questionAudioPath = " "],
   [AudioCase(1) EXCEPT !.questionText = " "],
   [TextCase(1) EXCEPT !.questionText = NULL],
   [TextCase(1) EXCEPT !.expectedAnswer = "The capital is Paris"]}

GenOutcomes ==
  {Ok([text |-> t, inputTranscript |-> tr]) :
     t \in {"Paris", "London", "", "The capital is Paris"},
     tr \in {"", "capital of France"}}
  \cup {Throw(Error("Response timeout")), Throw(Error("")), Throw(NonError)}

EmbedOutcomes ==
  {Throw(Error("connect ECONNREFUSED")),
   Ok(<<(<<1, 0>>), (<<1, 0>>)>>),
   Ok(<<(<<1, 2>>), (<<2, 1>>)>>),
   Ok(<<(<<1, 0>>), (<<-1, 0>>)>>),
   Ok(<<(<<0, 0>>), (<<1, 0>>)>>),
   Ok(<<(<<1, 0>>), (<<1, 0, 0>>)>>)}

JudgeObject(score) ==
  [score |-> score,
   breakdown |-> [accuracy |-> score, completeness |-> score,
                  relevance |-> score, coherence |-> score],
   reason |-> "Judged."]

JudgeOutcomes ==
  {Ok(JudgeObject(730)), Ok(JudgeObject(0)), Ok(JudgeObject(1500)),
   Throw(Error("429 rate limit"))}

ProbeRun(m) ==
  [id |-> "r1", llmModel |-> m, prompt |-> "You are a nurse assistant.",
   completedAt |-> NULL,
   suite |-> [testCases |-> << >>, contexts |-> SuiteContexts]]

InitCase ==
  /\ queue = << >>
  /\ jobCount = 0
  /\ testRuns = [r \in ExistingRunIds |-> ProbeRun("openai:gpt-5-mini-2025-08-07")]
  /\ providers = << >>
  /\ dbResults = << >>
  /\ pc = [w \in Workers |-> "idle"]
  /\ job = [w \in Workers |-> NullObject]
  /\ testRun = [w \in Workers |-> NullObject]
  /\ contextData = [w \in Workers |-> NULL]
  /\ phase = [w \in Workers |-> << >>]
  /\ activeCount = [w \in Workers |-> 0]
  /\ results = [w \in Workers |-> << >>]
  /\ validResults = [w \in Workers |-> << >>]
  /\ error = [w \in Workers |-> NullObject]
  /\ probe \in {[stage |-> "ready", run |-> ProbeRun(m), case |-> c, env |-> e] :
                  \* two models of LLMS and a model string without a provider
                  m \in {"openai:gpt-5-mini-2025-08-07", "realtime:gpt-realtime",
                         "gpt-4o"},
                  c \in ProbeCases,
                  e \in {[gen |-> g, embed |-> em, judge |-> j, apiKeys |-> k,
                          embeddingModel |-> "openai:text-embedding-3-small",
                          judgeModel |-> "openai:gpt-4o-mini"] :
                           g \in GenOutcomes, em \in EmbedOutcomes,
                           j \in JudgeOutcomes, k \in {{"OPENAI_API_KEY"}, {}}}}

\* processTestCaseSafe runs processTestCase: calls are the generation calls
\* made, generation the answer and the question handed to calculateScores (or
\* the exception of the generation step), out is what processTestCase returned or threw, rec the record
\* processTestCaseSafe returns
ProbeResolve ==
  /\ probe.stage = "ready"
  /\ LET ctx == loadContexts(probe.run.suite.contexts, FileSystem) IN
     probe' = [stage |-> "resolved", run |-> probe.run, case |-> probe.case,
               env |-> probe.env,
               calls |-> GenerateStep(probe.run, probe.case, ctx, probe.env).calls,
               generation |-> GenerateStep(probe.run, probe.case, ctx, probe.env).out,
               out |-> processTestCase(probe.run, probe.case, ctx, probe.env),
               rec |-> processTestCaseSafe(probe.run, probe.case, ctx, probe.env)]
  /\ UNCHANGED <<queue, jobCount, testRuns, providers, dbResults, pc, job,
                 localVars, error>>

SpecCase == InitCase /\ [][ProbeResolve]_vars

\* ------------------------------------------------------------------------
\* The scorers on their own: the cosine scorers, the two judges and
\* calculateScores applied to an answer and an expected answer, for every
\* behaviour and configuration of the embedding and judge providers, and the
\* case pipeline run on the same answer
\* ------------------------------------------------------------------------
\* every variable of the worker at rest
WorkerIdle ==
  /\ queue = << >>
  /\ jobCount = 0
  /\ dbResults = << >>
  /\ pc = [w \in Workers |-> "idle"]
  /\ job = [w \in Workers |-> NullObject]
  /\ testRun = [w \in Workers |-> NullObject]
  /\ contextData = [w \in Workers |-> NULL]
  /\ phase = [w \in Workers |-> << >>]
  /\ activeCount = [w \in Workers |-> 0]
  /\ results = [w \in Workers |-> << >>]
  /\ validResults = [w \in Workers |-> << >>]
  /\ error = [w \in Workers |-> NullObject]

\* TestRun.llmModel: two models of LLMS and five strings that are not (no
\* colon, an unknown provider, no model id, no provider, a second colon)
ScoreRunModels ==
  {"openai:gpt-5-mini-2025-08-07", "realtime:gpt-realtime", "gpt-4o", "mistral:large",
   "openai:", ":gpt-4o", "google:a:b"}

\* the provider keys set in the environment
KeySets == {{"OPENAI_API_KEY", "ANTHROPIC_API_KEY"}, {"OPENAI_API_KEY"}, {}}

ScoreEnv(text, embed, embeddingModel, judge, judgeText, judgeModel, apiKeys) ==
  [gen |-> Ok([text |-> text, inputTranscript |-> ""]),
   embed |-> embed, judge |-> judge, judgeText |-> judgeText, apiKeys |-> apiKeys,
   embeddingModel |-> embeddingModel, judgeModel |-> judgeModel]

DefaultJudge == Ok(JudgeObject(730))
DefaultJudgeText == Ok("{\"score\": 0.73, \"reason\": \"Mostly right.\"}")
DefaultEmbed == Ok(<<(<<1, 2>>), (<<2, 1>>)>>)

\* the environments: the embedding side varies, or the judge side, or the
\* keys alone
ScoreEnvs ==
  {ScoreEnv(t, e, em, DefaultJudge, DefaultJudgeText, "openai:gpt-4o-mini", k) :
     t \in {"Paris", "London", "", "The capital is Paris"},
     e \in EmbedOutcomes,
     \* EMBEDDING_MODEL: the default, no colon, an unknown provider, a
     \* provider without embeddings
     em \in {"openai:text-embedding-3-small", "gpt-4o", "mistral:large",
             "anthropic:claude"},
     k \in KeySets}
  \cup
  {ScoreEnv("Paris", DefaultEmbed, "openai:text-embedding-3-small", j, jt, jm, k) :
     j \in JudgeOutcomes \cup {Throw(NonError)},
     jt \in {Ok(t) : t \in JudgeTexts}
              \cup {Throw(Error("429 rate limit")), Throw(NonError)},
     \* LLM_JUDGE_MODEL: the default, no colon, an unknown provider, no model id
     jm \in {"openai:gpt-4o-mini", "gpt-4o", "mistral:large", "openai:"},
     k \in KeySets}

\* answers and expected answers with repeated and shared words
RepeatingTexts ==
  {"Paris", "paris paris paris", "The capital is Paris",
   "the capital of France is Paris"}

ScoreProbes ==
  {[stage |-> "unscored", run |-> ProbeRun("openai:gpt-5-mini-2025-08-07"),
    case |-> [TextCase(1) EXCEPT !.expectedAnswer = x], env |-> e] :
     x \in {"Paris", "The capital is Paris"}, e \in ScoreEnvs}
  \cup
  {[stage |-> "unscored", run |-> ProbeRun(m), case |-> TextCase(1),
    env |-> ScoreEnv("Paris", DefaultEmbed, "openai:text-embedding-3-small",
                     DefaultJudge, DefaultJudgeText, "openai:gpt-4o-mini", k)] :
     m \in ScoreRunModels, k \in KeySets}
  \cup
  {[stage |-> "unscored", run |-> ProbeRun("openai:gpt-5-mini-2025-08-07"),
    case |-> [TextCase(1) EXCEPT !.expectedAnswer = x],
    env |-> ScoreEnv(t, DefaultEmbed, "openai:text-embedding-3-small",
                     DefaultJudge, DefaultJudgeText, "openai:gpt-4o-mini",
                     {"OPENAI_API_KEY"})] :
     t \in RepeatingTexts, x \in RepeatingTexts}

InitScore ==
  /\ WorkerIdle
  /\ testRuns = [r \in ExistingRunIds |-> ProbeRun("openai:gpt-5-mini-2025-08-07")]
  /\ providers = << >>
  /\ probe \in ScoreProbes

\* the scorers are called on the answer env.gen holds and the expected answer
\* of the case; config is what parseModelString returns or throws for the
\* run's model; precisions are what calculateClippedPrecision returns for the
\* n-grams of sizes 1 to 4; embedding and similarity are what generateEmbedding and
\* cosineSimilarity return or throw inside calculateEmbeddingCosineSimilarity;
\* generation, out and rec are those of the case pipeline
ScoreResolve ==
  /\ probe.stage = "unscored"
  /\ LET Scored(answer, expected, question, env, ctx) ==
           [stage |-> "scored", run |-> probe.run, case |-> probe.case, env |-> env,
            embedding |-> IF ~generateEmbedding(1, env).ok THEN generateEmbedding(1, env)
                          ELSE generateEmbedding(2, env),
            similarity |-> IF generateEmbedding(1, env).ok /\ generateEmbedding(2, env).ok
                           THEN cosineSimilarity(generateEmbedding(1, env).val,
                                                 generateEmbedding(2, env).val)
                           ELSE NullObject,
            cosine |-> calculateEmbeddingCosineSimilarity(answer, expected, env),
            tfidf |-> calculateTfIdfCosineSimilarity(answer, expected),
            scores |-> calculateScores([generatedAnswer |-> answer,
                                        expectedAnswer |-> expected,
                                        question |-> question,
                                        model |-> probe.run.llmModel], env),
            judge |-> calculateLlmJudgeScore(question, answer, expected, env),
            judgeText |-> calculateLlmJudgeScoreText(question, answer, expected, env),
            config |-> parseModelString(probe.run.llmModel),
            precisions |-> [n \in 1..4 |->
                             calculateClippedPrecision(getNgrams(tokenize(answer), n),
                                                       getNgrams(tokenize(expected), n))],
            generation |-> GenerateStep(probe.run, probe.case, ctx, env).out,
            out |-> processTestCase(probe.run, probe.case, ctx, env),
            rec |-> processTestCaseSafe(probe.run, probe.case, ctx, env)]
     IN probe' = Scored(probe.env.gen.val.text, probe.case.expectedAnswer,
                        probe.case.questionText, probe.env,
                        loadContexts(probe.run.suite.contexts, FileSystem))
  /\ UNCHANGED <<queue, jobCount, testRuns, providers, dbResults, pc, job,
                 localVars, error>>

SpecScore == InitScore /\ [][ScoreResolve]_vars

\* ------------------------------------------------------------------------
\* The test cases of the stored suite under the requests that create and
\* update them (api/tests/suites/[suiteId]/cases): a request body is a JSON
\* object, here a function from the keys it has to their values
\* ------------------------------------------------------------------------

FullBody ==
  [questionText |-> "What is the capital of France?",
   questionAudioPath |-> "audio/q.wav",
   questionImagePath |-> "img/q.png",
   expectedAnswer |-> "Paris"]

Pick(body, keys) == [k \in keys |-> body[k]]

\* the bodies a client can send: any set of the four keys with valid values,
\* and bodies with an empty or null questionText or an empty expectedAnswer
Bodies ==
  {Pick(FullBody, keys) : keys \in SUBSET (DOMAIN FullBody)}
  \cup {Pick([FullBody EXCEPT !.questionText = v], keys) :
          v \in {"", NULL},
          keys \in {{"expectedAnswer", "questionText"},
                    {"expectedAnswer", "questionText", "questionAudioPath"}}}
  \cup {Pick([FullBody EXCEPT !.expectedAnswer = ""],
             {"expectedAnswer", "questionText"})}

\* z.string().min(1) on the value of a key
StringMin1(body, k) == k \in DOMAIN body /\ Truthy(body[k])

\* testCaseCreateSchema: object({expectedAnswer}).and(union of the three
\* one-key objects).  An object schema keeps only its own keys and the union
\* returns the output of its first option that validates, so the parsed data
\* has expectedAnswer and exactly one question key
testCaseCreateSchema(body) ==
  IF ~StringMin1(body, "expectedAnswer") THEN Throw(Error("Invalid input"))
  ELSE IF StringMin1(body, "questionText")
  THEN Ok(Pick(body, {"expectedAnswer", "questionText"}))
  ELSE IF StringMin1(body, "questionAudioPath")
  THEN Ok(Pick(body, {"expectedAnswer", "questionAudioPath"}))
  ELSE IF StringMin1(body, "questionImagePath")
  THEN Ok(Pick(body, {"expectedAnswer", "questionImagePath"}))
  ELSE Throw(Error("Invalid input"))

\* the data of prisma.testCase.update in PUT: a question column is written
\* only when its key is in the parsed data, undefined leaves a column as it is
UpdateData(testCase, data) ==
  [id |-> testCase.id,
   questionText |-> IF "questionText" \in DOMAIN data
                    THEN data.questionText ELSE testCase.questionText,
   questionAudioPath |-> IF "questionAudioPath" \in DOMAIN data
                         THEN data.questionAudioPath ELSE testCase.questionAudioPath,
   questionImagePath |-> IF "questionImagePath" \in DOMAIN data
                         THEN data.questionImagePath ELSE testCase.questionImagePath,
   expectedAnswer |-> data.expectedAnswer]

\* the row of a created case: the columns the parsed data does not name are
\* null
CreateData(id, data) ==
  [id |-> id,
   questionText |-> IF "questionText" \in DOMAIN data
                    THEN data.questionText ELSE NULL,
   questionAudioPath |-> IF "questionAudioPath" \in DOMAIN data
                         THEN data.questionAudioPath ELSE NULL,
   questionImagePath |-> IF "questionImagePath" \in DOMAIN data
                         THEN data.questionImagePath ELSE NULL,
   expectedAnswer |-> data.expectedAnswer]

StoredCases == testRuns["r1"].suite.testCases

InitSuite ==
  /\ WorkerIdle
  /\ \E cases \in Suites : testRuns = [r \in ExistingRunIds |-> StoredRun(cases)]
  /\ providers = << >>
  /\ probe = NoProbe

\* POST .../cases with a body the schema accepts
CreateCase(body) ==
  /\ testCaseCreateSchema(body).ok
  /\ Len(StoredCases) < MaxCases
  /\ testRuns' = [testRuns EXCEPT !["r1"].suite.testCases =
                    Append(@, CreateData(CaseId(Len(@) + 1),
                                         testCaseCreateSchema(body).val))]
  /\ UNCHANGED <<queue, jobCount, providers, dbResults, pc, job, localVars,
                 error, probe>>

\* PUT .../cases/[caseId] with a body the schema accepts, for a stored case
UpdateCase(i, body) ==
  /\ testCaseCreateSchema(body).ok
  /\ i \in DOMAIN StoredCases
  /\ testRuns' = [testRuns EXCEPT !["r1"].suite.testCases[i] =
                    UpdateData(@, testCaseCreateSchema(body).val)]
  /\ UNCHANGED <<queue, jobCount, providers, dbResults, pc, job, localVars,
                 error, probe>>

NextSuite ==
  \E body \in Bodies :
    \/ CreateCase(body)
    \/ \E i \in 1..MaxCases : UpdateCase(i, body)

SpecSuite == InitSuite /\ [][NextSuite]_vars

\* ------------------------------------------------------------------------
\* Runs whose cases time out in the realtime transport: the stored run has
\* the realtime model and a suite of text and audio cases, so that every case
\* goes through the transport, and for the cases of a set F the transport
\* rejects with the timeout of one of its three phases
\* ------------------------------------------------------------------------
InitRealtime ==
  /\ WorkerIdle
  /\ \E cases \in {[i \in 1..n |-> IF i % 2 = 1 THEN TextCase(i) ELSE AudioCase(i)] :
                      n \in 0..MaxCases} :
       testRuns = [r \in ExistingRunIds |->
                     [StoredRun(cases) EXCEPT !.llmModel = "realtime:gpt-realtime"]]
  /\ \E F \in FailingSets(Len(testRuns["r1"].suite.testCases)) :
       providers = [i \in DOMAIN testRuns["r1"].suite.testCases |->
                      IF i \in F
                      \* the phase that times out for case i
                      THEN ProviderEnv(Throw(Error(
                             CASE i % 3 = 1 -> "Connection timeout"
                               [] i % 3 = 2 -> "Session configuration timeout"
                               [] OTHER -> "Response timeout")))
                      ELSE ProviderEnv(Ok([text |-> "Paris",
                                           inputTranscript |-> "capital of France"]))]
  /\ probe = NoProbe

SpecRealtime == InitRealtime /\ [][Next]_vars

\* ------------------------------------------------------------------------
\* loadContexts on its own: applied to every list of up to MaxDocs context
\* documents over a file system with a text file, a missing file and a file
\* whose read rejects with a value that is not an Error
\* ------------------------------------------------------------------------
ContextFiles ==
  [f \in {"guide.txt", "missing.pdf", "locked.txt"} |->
     CASE f = "guide.txt" -> Ok("Wash hands before every procedure.")
       [] f = "missing.pdf" -> Throw(Error("File not found: /public/files/missing.pdf"))
       [] f = "locked.txt" -> Throw(NonError)]

\* the documents a suite can hold at position i: text, a file, both, neither
ContextDocs(i) ==
  {[id |-> "ctx" \o ToString(i), text |-> t, filePath |-> f] :
     t \in {NULL, "Patient info"},
     f \in {NULL} \cup DOMAIN ContextFiles}

InitContext ==
  /\ WorkerIdle
  /\ testRuns = [r \in ExistingRunIds |-> StoredRun(<< >>)]
  /\ providers = << >>
  /\ probe \in {[stage |-> "unloaded", contexts |-> docs] :
                  docs \in UNION {{d \in [1..n -> UNION {ContextDocs(i) : i \in 1..n}] :
                                     \A i \in 1..n : d[i] \in ContextDocs(i)} :
                                  n \in 0..MaxDocs}}

\* loadContexts(contexts): perDoc is what the loop pushes for each document,
\* parts is contextParts after the loop, out the returned string
ContextResolve ==
  /\ probe.stage = "unloaded"
  /\ probe' = [stage |-> "loaded", contexts |-> probe.contexts,
               perDoc |-> [i \in DOMAIN probe.contexts |->
                             ContextParts(probe.contexts[i], ContextFiles)],
               parts |-> AllContextParts(probe.contexts, ContextFiles),
               out |-> loadContexts(probe.contexts, ContextFiles)]
  /\ UNCHANGED <<queue, jobCount, testRuns, providers, dbResults, pc, job,
                 localVars, error>>

SpecContext == InitContext /\ [][ContextResolve]_vars

\* ------------------------------------------------------------------------
\* batchCalculateLlmJudgeScores (services/scoring/llm-judge.ts): the calls
\* evaluations.map starts, the replies of the judge model to them and the
\* list Promise.all resolves with
\* ------------------------------------------------------------------------
MaxEvaluations == LLM_CONCURRENCY + 1

Evaluation(i) ==
  [question |-> "What is the capital of France?",
   generatedAnswer |->
     LET answers == <<"Paris", "London", "The capital is Paris", "", "Paris.">>
     IN answers[((i - 1) % Len(answers)) + 1],
   expectedAnswer |-> "Paris"]

\* the environment of one judge call: the judgeModel argument, the keys and
\* the reply of the provider
BatchEnv(judgeModel, reply) ==
  [judge |-> reply, judgeModel |-> judgeModel, apiKeys |-> {"OPENAI_API_KEY"}]

\* whether calculateLlmJudgeScore reaches its await of generateObject
JudgeCallAwaits(judgeModel) ==
  /\ parseModelString(judgeModel).ok
  /\ getModel(parseModelString(judgeModel).val, BatchEnv(judgeModel, NullObject)).ok

InitBatch ==
  /\ WorkerIdle
  /\ testRuns = [r \in ExistingRunIds |-> StoredRun(<< >>)]
  /\ providers = << >>
  /\ probe \in {[stage |-> "unbatched",
                 evaluations |-> [i \in 1..n |-> Evaluation(i)],
                 judgeModel |-> m, inFlight |-> {}, replies |-> << >>,
                 settled |-> << >>, out |-> NullObject] :
                  n \in 0..MaxEvaluations, m \in {"openai:gpt-4o-mini", "gpt-4o"}}

\* evaluations.map(... => calculateLlmJudgeScore(...)): every call is started
\* and runs up to its first await; a call whose model string or key is bad
\* has taken its catch branch there
BatchMap ==
  /\ probe.stage = "unbatched"
  /\ probe' = [probe EXCEPT
       !.stage = "mapped",
       !.inFlight = IF JudgeCallAwaits(probe.judgeModel)
                    THEN DOMAIN probe.evaluations ELSE {},
       !.settled = IF JudgeCallAwaits(probe.judgeModel) THEN << >>
                   ELSE [i \in DOMAIN probe.evaluations |->
                           calculateLlmJudgeScore(
                             probe.evaluations[i].question,
                             probe.evaluations[i].generatedAnswer,
                             probe.evaluations[i].expectedAnswer,
                             BatchEnv(probe.judgeModel, NullObject))]]
  /\ UNCHANGED <<queue, jobCount, testRuns, providers, dbResults, pc, job,
                 localVars, error>>

\* generateObject of call i settles and the call runs to its return
JudgeReply(i, reply) ==
  /\ probe.stage = "mapped"
  /\ i \in probe.inFlight
  /\ probe' = [probe EXCEPT
       !.inFlight = @ \ {i},
       !.replies = (i :> reply) @@ @,
       !.settled = (i :> calculateLlmJudgeScore(
                            probe.evaluations[i].question,
                            probe.evaluations[i].generatedAnswer,
                            probe.evaluations[i].expectedAnswer,
                            BatchEnv(probe.judgeModel, reply))) @@ @]
  /\ UNCHANGED <<queue, jobCount, testRuns, providers, dbResults, pc, job,
                 localVars, error>>

\* Promise.all resolves once every call has, with the results in the order
\* of the promises
BatchReturn ==
  /\ probe.stage = "mapped"
  /\ DOMAIN probe.settled = DOMAIN probe.evaluations
  /\ probe' = [probe EXCEPT
       !.stage = "returned",
       !.out = [i \in DOMAIN probe.evaluations |-> probe.settled[i]]]
  /\ UNCHANGED <<queue, jobCount, testRuns, providers, dbResults, pc, job,
                 localVars, error>>

NextBatch ==
  \/ BatchMap
  \* what the provider call behind generateObject of one judge call can give
  \/ \E i \in 1..MaxEvaluations,
        reply \in {Ok(JudgeObject(730)), Ok(JudgeObject(1500)),
                   Throw(Error("429 rate limit"))} : JudgeReply(i, reply)
  \/ BatchReturn

SpecBatch == InitBatch /\ [][NextBatch]_vars

\* ------------------------------------------------------------------------
\* One call of generateAnswerRealtime at the level of the socket
\* (services/realtime/index.ts, websocket.ts): the connection, the message
\* listeners and timers of the three phases, the events the server sends and
\* their delivery.  The record s is the state of the call: stage is where
\* generateAnswerRealtime stands, configure and response are the states of
\* the promises of configureSession and of sendTextMessage/streamAudio, sent
\* the messages written to the socket, seen how many of them the server has
\* processed, inbox the events on their way to the client, acked whether the
\* server has answered session.update with session.updated.
\* ------------------------------------------------------------------------
SessionEvents == {"session.updated", "session.created"}

\* RealtimeWebSocket.send
send(s, message) ==
  IF s.readyState = "OPEN" THEN [s EXCEPT !.sent = Append(@, message)] ELSE s

\* RealtimeWebSocket.close
close(s) ==
  IF s.readyState = "OPEN" THEN [s EXCEPT !.readyState = "CLOSING"] ELSE s

\* variant: the connection is closed only when an answer is returned
Settle_ClosesOnSuccessOnly(s, outcome) ==
  LET closed == IF s.connection /\ outcome.ok THEN close(s) ELSE s
  IN [closed EXCEPT !.stage = "settled", !.outcome = outcome]

\* generateAnswerRealtime returns or throws: the finally block runs first
Settle(s, outcome) ==
  LET closed == IF s.connection THEN close(s) ELSE s
  IN [closed EXCEPT !.stage = "settled", !.outcome = outcome]

\* RealtimeWebSocket.handleEvent
handleEvent(s, event) ==
  CASE event = "response.output_text.delta" ->
         [s EXCEPT !.responseText = @ \o "Paris"]
    [] event = "conversation.item.input_audio_transcription.completed" ->
         [s EXCEPT !.inputTranscript = "capital of France"]
    [] OTHER -> s

\* the body of sendTextMessage once the session is configured
sendTextMessage(s) ==
  LET waiting == [s EXCEPT !.stage = "responding", !.response = "pending",
                           !.responseText = "",
                           !.timers = @ \cup {"response"},
                           !.listeners = @ \cup {"sendTextMessage"}]
  IN send(send(waiting, "conversation.item.create"), "response.create")

\* the body of streamAudio once the session is configured
streamAudio(s) ==
  LET waiting == [s EXCEPT !.stage = "responding", !.response = "pending",
                           !.responseText = "", !.inputTranscript = "",
                           !.timers = @ \cup {"response"},
                           !.listeners = @ \cup {"streamAudio"}]
  IN send(send(send(waiting, "input_audio_buffer.append"),
               "input_audio_buffer.commit"), "response.create")

\* generateAnswerRealtime after await connection.configureSession()
AfterConfigure(s) ==
  IF s.input = "audio" THEN [s EXCEPT !.stage = "loading"] ELSE sendTextMessage(s)

\* variant: the listener stays attached after the session event
ConfigureOnMessage_KeepsListener(s, event) ==
  IF event \in SessionEvents
  THEN LET on == [s EXCEPT !.isSessionConfigured = TRUE] IN
       IF on.configure = "pending"
       THEN AfterConfigure([on EXCEPT !.configure = "resolved"])
       ELSE on
  ELSE IF event = "error"
  THEN LET off == [s EXCEPT !.listeners = @ \ {"configureSession"}] IN
       IF off.configure = "pending"
       THEN Settle([off EXCEPT !.configure = "error"],
                   Throw(Error("Session configuration failed")))
       ELSE off
  ELSE s

\* onMessage of configureSession
ConfigureOnMessage(s, event) ==
  IF event \in SessionEvents
  THEN LET off == [s EXCEPT !.listeners = @ \ {"configureSession"},
                            !.isSessionConfigured = TRUE] IN
       IF off.configure = "pending"
       THEN AfterConfigure([off EXCEPT !.configure = "resolved"])
       ELSE off
  ELSE IF event = "error"
  THEN LET off == [s EXCEPT !.listeners = @ \ {"configureSession"}] IN
       IF off.configure = "pending"
       THEN Settle([off EXCEPT !.configure = "error"],
                   Throw(Error("Session configuration failed")))
       ELSE off
  ELSE s

\* onMessage of sendTextMessage and of streamAudio
ResponseOnMessage(s, listener, event) ==
  LET handled == handleEvent(s, event)
      off == [handled EXCEPT !.timers = @ \ {"response"},
                             !.listeners = @ \ {listener}]
  IN IF event = "response.done"
     THEN IF off.response = "pending"
          THEN Settle([off EXCEPT !.response = "resolved"],
                      Ok([answer |-> off.responseText,
                          inputTranscript |-> IF listener = "streamAudio"
                                              THEN off.inputTranscript ELSE NULL,
                          inputType |-> off.input]))
          ELSE off
     ELSE IF event = "error"
     THEN IF off.response = "pending"
          THEN Settle([off EXCEPT !.response = "error"],
                      Throw(Error("Response error")))
          ELSE off
     ELSE handled

InitSocket ==
  /\ WorkerIdle
  /\ testRuns = [r \in ExistingRunIds |-> StoredRun(<< >>)]
  /\ providers = << >>
  /\ probe \in {[stage |-> "connecting", input |-> i, readyState |-> "CONNECTING",
                 connection |-> FALSE, isSessionConfigured |-> FALSE,
                 listeners |-> {}, timers |-> {"connection"},
                 configure |-> "none", response |-> "none",
                 responseText |-> "", inputTranscript |-> "",
                 sent |-> << >>, seen |-> 0, inbox |-> << >>, acked |-> FALSE,
                 outcome |-> NullObject] : i \in {"text", "audio"}}

SocketUnchanged ==
  UNCHANGED <<queue, jobCount, testRuns, providers, dbResults, pc, job,
              localVars, error>>

\* ws "open": createRealtimeConnection resolves and configureSession attaches
\* its listener, sends session.update and starts its timer.  The server's
\* session.created is on its way, or was emitted before the listener was
\* attached (early) and is lost
SocketOpen(early) ==
  /\ probe.stage = "connecting"
  /\ LET open == [probe EXCEPT !.readyState = "OPEN", !.connection = TRUE,
                               !.timers = (@ \ {"connection"}) \cup {"configureSession"},
                               !.listeners = @ \cup {"configureSession"},
                               !.stage = "configuring", !.configure = "pending",
                               !.inbox = IF early THEN << >> ELSE <<"session.created">>]
     IN probe' = send(open, "session.update")
  /\ SocketUnchanged

\* the connection timer: ws.close() and reject
ConnectionTimeout ==
  /\ probe.stage = "connecting"
  /\ "connection" \in probe.timers
  /\ probe' = Settle([probe EXCEPT !.timers = @ \ {"connection"},
                                   !.readyState = "CLOSING"],
                     Throw(Error("Connection timeout")))
  /\ SocketUnchanged

\* ws "error" during the handshake: the socket is gone, the timer cleared
ConnectionError ==
  /\ probe.stage = "connecting"
  /\ probe' = Settle([probe EXCEPT !.timers = @ \ {"connection"},
                                   !.readyState = "CLOSED"],
                     Throw(Error("connect ECONNREFUSED")))
  /\ SocketUnchanged

\* the server processes the next message of the client and answers it, with
\* the events of reply
ServerStep(reply) ==
  /\ probe.stage \in {"configuring", "loading", "responding", "settled"}
  /\ probe.seen < Len(probe.sent)
  /\ LET message == probe.sent[probe.seen + 1] IN
     /\ reply \in CASE message = "session.update" ->
                         {<<"session.updated">>, <<"error">>, << >>}
                    [] message = "input_audio_buffer.commit" ->
                         {<< >>,
                          <<"conversation.item.input_audio_transcription.completed">>}
                    [] message = "response.create" ->
                         {<<"response.created", "response.output_text.delta",
                            "response.done">>, <<"error">>, << >>}
                    [] OTHER -> {<< >>}
     /\ probe' = [probe EXCEPT !.seen = @ + 1,
                               !.inbox = @ \o reply,
                               !.acked = @ \/ reply = <<"session.updated">>]
  /\ SocketUnchanged

\* ws "message": the event is handed to the listeners attached
Deliver ==
  /\ probe.stage \in {"configuring", "loading", "responding", "settled"}
  /\ Len(probe.inbox) > 0
  /\ LET event == Head(probe.inbox)
         taken == [probe EXCEPT !.inbox = Tail(@)]
         first == IF "configureSession" \in probe.listeners
                  THEN ConfigureOnMessage(taken, event) ELSE taken
         second == IF "sendTextMessage" \in probe.listeners
                   THEN ResponseOnMessage(first, "sendTextMessage", event) ELSE first
     IN probe' = IF "streamAudio" \in probe.listeners
                 THEN ResponseOnMessage(second, "streamAudio", event) ELSE second
  /\ SocketUnchanged

\* the timer of configureSession, which is never cleared
ConfigureTimeout ==
  /\ probe.stage \in {"configuring", "loading", "responding", "settled"}
  /\ "configureSession" \in probe.timers
  /\ LET off == [probe EXCEPT !.timers = @ \ {"configureSession"},
                              !.listeners = @ \ {"configureSession"}]
     IN probe' = IF ~off.isSessionConfigured /\ off.configure = "pending"
                 THEN Settle([off EXCEPT !.configure = "timeout"],
                             Throw(Error("Session configuration timeout")))
                 ELSE off
  /\ SocketUnchanged

\* await loadAudioFile(questionAudioPath), then streamAudio
AudioLoad(loaded) ==
  /\ probe.stage = "loading"
  /\ probe' = IF loaded THEN streamAudio(probe)
              ELSE Settle(probe, Throw(Error("Invalid WAV file format")))
  /\ SocketUnchanged

\* the response timer; it was started after the timer of configureSession
\* and runs longer, so it fires after it
ResponseTimeout ==
  /\ probe.stage \in {"responding", "settled"}
  /\ "response" \in probe.timers
  /\ "configureSession" \notin probe.timers
  /\ LET off == [probe EXCEPT !.timers = @ \ {"response"},
                              !.listeners = @ \ {"sendTextMessage", "streamAudio"}]
     IN probe' = IF off.response = "pending"
                 THEN Settle([off EXCEPT !.response = "timeout"],
                             Throw(Error("Response timeout")))
                 ELSE off
  /\ SocketUnchanged

NextSocket ==
  \/ \E early \in BOOLEAN : SocketOpen(early)
  \/ ConnectionTimeout
  \/ ConnectionError
  \/ \E reply \in {<<"session.updated">>, <<"error">>, << >>,
                   <<"conversation.item.input_audio_transcription.completed">>,
                   <<"response.created", "response.output_text.delta",
                     "response.done">>} : ServerStep(reply)
  \/ Deliver
  \/ ConfigureTimeout
  \/ \E loaded \in BOOLEAN : AudioLoad(loaded)
  \/ ResponseTimeout

SpecSocket == InitSocket /\ [][NextSocket]_vars

\* ------------------------------------------------------------------------
\* Properties of the orchestrator
\* ------------------------------------------------------------------------

C2_AtMostCInFlight ==
  \A w \in Workers :
    LET running == {i \in DOMAIN phase[w] : phase[w][i] = "running"}
        queued == {i \in DOMAIN phase[w] : phase[w][i] = "queued"}
    IN /\ Cardinality(running) <= LLM_CONCURRENCY
       /\ queued # {} => Cardinality(running) = LLM_CONCURRENCY

\* a run of more than LLM_CONCURRENCY cases with every slot taken and a case
\* waiting
C2_Witness ==
  \E w \in Workers :
    /\ Len(phase[w]) > LLM_CONCURRENCY
    /\ Cardinality({i \in DOMAIN phase[w] : phase[w][i] = "running"}) = LLM_CONCURRENCY
    /\ \E i \in DOMAIN phase[w] : phase[w][i] = "queued"

C5_FetchFailureTouchesNothing ==
  \A w \in Workers :
    (pc[w] \notin {"idle", "fetch"} /\ testRun[w] = NullObject) =>
      /\ pc[w] = "failed"
      /\ error[w] # NullObject
      /\ contextData[w] = NULL
      /\ phase[w] = << >>
      /\ results[w] = << >>
      /\ \A k \in DOMAIN dbResults : dbResults[k].by # job[w].id
      /\ \A r \in DOMAIN testRuns : testRuns[r].completedAt # Now(job[w].id)

\* a job for a run id that is not stored has thrown "TestRun not found"
C5_Witness ==
  \E w \in Workers :
    /\ pc[w] = "failed"
    /\ testRun[w] = NullObject
    /\ job[w].testRunId \notin DOMAIN testRuns
    /\ error[w] = Error("TestRun not found: " \o job[w].testRunId)

\* C6: a run is not processed twice: the table holds at most one result
\* record per (run, case) pair.
C6_AtMostOneRecordPerRunCase ==
  \A a, b \in DOMAIN dbResults :
    (/\ dbResults[a].row.runId = dbResults[b].row.runId
     /\ dbResults[a].row.caseId = dbResults[b].row.caseId) => a = b

\* C7: an invocation has written no result record before every one of its
\* case pipelines has resolved; its records are written by one bulk write of
\* all of them; and completedAt is set by it only after that write returned.
C7_OneBulkWriteThenCompleted ==
  /\ [](\A w \in Workers :
          (pc[w] # "idle" /\ \E k \in DOMAIN dbResults : dbResults[k].by = job[w].id) =>
            /\ phase[w] # << >>
            /\ \A i \in DOMAIN phase[w] : phase[w][i] = "resolved")
  /\ [](\A w \in Workers :
          (pc[w] # "idle"
           /\ \E r \in DOMAIN testRuns : testRuns[r].completedAt = Now(job[w].id)) =>
            /\ pc[w] = "done"
            /\ Len(SelectSeq(dbResults, LAMBDA r : r.by = job[w].id))
                 = Len(testRun[w].suite.testCases))
  /\ [][\A j \in 1..MaxTriggers :
          LET before == SelectSeq(dbResults, LAMBDA r : r.by = j)
              after == SelectSeq(dbResults', LAMBDA r : r.by = j)
          IN after # before =>
               /\ before = << >>
               /\ \E w \in Workers :
                    /\ pc[w] = "cases"
                    /\ job[w].id = j
                    /\ Len(after) = Len(testRun[w].suite.testCases)
                    /\ \A i \in DOMAIN after : after[i].row = results[w][i]]_vars

\* the results of a run of several cases are written and completedAt is not
\* yet set
C7_Witness ==
  \E w \in Workers :
    /\ pc[w] = "update"
    /\ Len(SelectSeq(dbResults, LAMBDA r : r.by = job[w].id)) >= 2
    /\ testRuns[testRun[w].id].completedAt = NULL

\* C8: a failing case pipeline releases its limiter slot and changes nothing
\* for the other cases: the limiter's count is the number of pipelines in
\* flight, a case waits only while every slot is taken, processTestRun leaves
\* the fan-out only when every case has resolved, and every resolved case has
\* its own result, FAILED only where its own pipeline failed.
C8_FailureIsolatedToItsCase ==
  \A w \in Workers :
    (pc[w] \in {"cases", "update", "done", "failed"} /\ testRun[w] # NullObject) =>
      LET cases == testRun[w].suite.testCases
          running == {i \in DOMAIN phase[w] : phase[w][i] = "running"}
          queued == {i \in DOMAIN phase[w] : phase[w][i] = "queued"}
      IN /\ DOMAIN phase[w] = DOMAIN cases
         /\ activeCount[w] = Cardinality(running)
         /\ queued # {} => Cardinality(running) = LLM_CONCURRENCY
         /\ pc[w] # "cases" => running = {} /\ queued = {}
         /\ \A i \in DOMAIN cases :
              phase[w][i] = "resolved" =>
                /\ results[w][i] # NullObject
                /\ results[w][i].caseId = cases[i].id
                /\ results[w][i].status =
                     IF getInputType(cases[i]) # "none" /\ providers[i].gen.ok
                     THEN "COMPLETED" ELSE "FAILED"

\* a case has failed and a case that was waiting in the limiter's queue has
\* been started after it and has resolved with its own answer
C8_Witness ==
  \E w \in Workers :
    /\ pc[w] = "cases"
    /\ Len(phase[w]) > LLM_CONCURRENCY
    /\ \E i \in 1..LLM_CONCURRENCY :
         phase[w][i] = "resolved" /\ results[w][i].status = "FAILED"
    /\ \E k \in (LLM_CONCURRENCY + 1)..Len(phase[w]) :
         phase[w][k] = "resolved" /\ results[w][k].status = "COMPLETED"

\* ------------------------------------------------------------------------
\* Properties of one case pipeline
\* ------------------------------------------------------------------------

C10_ScoresInUnitInterval ==
  probe.stage = "resolved" =>
    /\ 0 <= probe.rec.bleuScore /\ probe.rec.bleuScore <= Scale
    /\ 0 <= probe.rec.cosineSimScore /\ probe.rec.cosineSimScore <= Scale
    /\ 0 <= probe.rec.llmScore /\ probe.rec.llmScore <= Scale

\* ------------------------------------------------------------------------
\* Properties of the scorers
\* ------------------------------------------------------------------------

\* C11: when the embedding call throws, the cosine score of a pair of texts is
\* the one calculateTfIdfCosineSimilarity gives for the pair, from
\* calculateEmbeddingCosineSimilarity and from calculateScores alike; the
\* caller gets a score and no error, and a case whose answer was generated is
\* COMPLETED with that score.
C11_EmbeddingFailureFallsBackToTfIdf ==
  (probe.stage = "scored" /\ ~probe.embedding.ok) =>
    /\ probe.cosine = Ok(probe.tfidf)
    /\ probe.scores.cosine = probe.tfidf
    /\ probe.generation.ok =>
         /\ probe.rec.status = "COMPLETED"
         /\ probe.rec.cosineSimScore = probe.tfidf

\* the provider's embed call has thrown for two texts that share one word of
\* four, and the case is COMPLETED with their TF-IDF score
C11_Witness ==
  /\ probe.stage = "scored"
  /\ ~probe.env.embed.ok
  /\ probe.embedding = Throw(Error("Embedding generation failed: connect ECONNREFUSED"))
  /\ probe.tfidf = Scale \div 2
  /\ probe.cosine = Ok(Scale \div 2)
  /\ probe.rec.status = "COMPLETED"
  /\ probe.rec.cosineSimScore = Scale \div 2

\* C12 as stated: when the two embedding vectors differ in length, the
\* embedding-cosine strategy throws to its caller and returns no score.
C12_DimensionMismatchReachesCaller ==
  (/\ probe.stage = "scored"
   /\ probe.similarity = Throw(Error("Vectors must have same length"))) =>
    ~probe.cosine.ok

\* C13 (as stated): a configuration error (missing credentials, invalid model
\* string, unsupported provider) is raised by the operation that first needs
\* the provider, be it answer generation, embedding or judging: none of the
\* three returns a score for it.
C13_ConfigErrorRaisedByEachOperation ==
  probe.stage = "scored" =>
    LET Check(run, env) ==
          LET cfg(m) == IF ~parseModelString(m).ok THEN parseModelString(m)
                        ELSE getModel(parseModelString(m).val, env)
              genCfg == IF selectedTextTransport(run.llmModel) = "realtime"
                        THEN getRealtimeToken(env) ELSE cfg(run.llmModel)
              embCfg == generateEmbedding(1, [env EXCEPT !.embed = DefaultEmbed])
              judgeCfg == cfg(env.judgeModel)
          IN /\ ~genCfg.ok => probe.generation = genCfg
             /\ ~embCfg.ok => probe.cosine = embCfg
             /\ ~judgeCfg.ok => probe.judge = judgeCfg
    IN Check(probe.run, probe.env)

\* C13 (amended): a configuration error is raised at the point of first use
\* by answer generation, and the case is FAILED with its message; in
\* embedding it is absorbed into the TF-IDF score and in judging into the
\* neutral score 0.5 with reason "Evaluation failed: <message>. Defaulting to
\* neutral score."
C13_ConfigErrorRaisedByGenerationOnly ==
  probe.stage = "scored" =>
    LET Check(run, env) ==
          LET cfg(m) == IF ~parseModelString(m).ok THEN parseModelString(m)
                        ELSE getModel(parseModelString(m).val, env)
              genCfg == IF selectedTextTransport(run.llmModel) = "realtime"
                        THEN getRealtimeToken(env) ELSE cfg(run.llmModel)
              embCfg == generateEmbedding(1, [env EXCEPT !.embed = DefaultEmbed])
              judgeCfg == cfg(env.judgeModel)
          IN /\ ~genCfg.ok =>
                  /\ probe.generation = genCfg
                  /\ probe.out = genCfg
                  /\ probe.rec.status = "FAILED"
                  /\ probe.rec.failReason = ErrorMessage(genCfg.exc)
             /\ ~embCfg.ok =>
                  /\ probe.cosine = Ok(probe.tfidf)
                  /\ probe.scores.cosine = probe.tfidf
             /\ ~judgeCfg.ok =>
                  probe.judge =
                    [score |-> Scale \div 2,
                     reason |-> "Evaluation failed: " \o ErrorMessage(judgeCfg.exc)
                                \o ". Defaulting to neutral score."]
    IN Check(probe.run, probe.env)

\* no provider key is set: generation fails the case with the key error,
\* the cosine score is the TF-IDF score and the judge score is neutral
C13_Witness ==
  /\ probe.stage = "scored"
  /\ probe.env.apiKeys = {}
  /\ probe.run.llmModel = "openai:gpt-5-mini-2025-08-07"
  /\ probe.out = Throw(Error("API key not found for provider \"openai\". Please set OPENAI_API_KEY in your .env file."))
  /\ probe.rec.status = "FAILED"
  /\ probe.cosine = Ok(probe.tfidf)
  /\ probe.judge.score = Scale \div 2

\* C14: calculateLlmJudgeScore never throws: for every outcome of the provider
\* call (exception, malformed or empty text, schema-invalid object, valid
\* verdict) it returns a score in [0,1] with a reason that is a string, and a
\* provider failure with message m gives exactly 0.5 with reason
\* "Evaluation failed: m. Defaulting to neutral score."; on the structured
\* path and on the free-text path.
C14_JudgeNeverThrowsReasonIsString ==
  probe.stage = "scored" =>
    LET Check(env) ==
          LET neutral(e) == "Evaluation failed: " \o ErrorMessage(e)
                            \o ". Defaulting to neutral score."
              configured == /\ parseModelString(env.judgeModel).ok
                            /\ getModel(parseModelString(env.judgeModel).val, env).ok
          IN /\ DOMAIN probe.judge = {"score", "reason"}
             /\ InUnit(probe.judge.score)
             /\ DOMAIN probe.judgeText = {"score", "reason"}
             /\ InUnit(probe.judgeText.score)
             /\ probe.judgeText.reason.type = "string"
             /\ (configured /\ ~env.judge.ok) =>
                  probe.judge = [score |-> Scale \div 2,
                                 reason |-> neutral(env.judge.exc)]
             /\ (configured /\ ~env.judgeText.ok) =>
                  probe.judgeText = [score |-> Scale \div 2,
                                     reason |-> JsStr(neutral(env.judgeText.exc))]
    IN Check(probe.env)

\* C15 (as stated): a verdict with a numeric score s gives s clamped into
\* [0,1] (0.73 gives 0.73, 1.5 gives 1.0), on the structured-output path and
\* on the free-text JSON path.
C15_NumericScoreClampedOnBothPaths ==
  probe.stage = "scored" =>
    LET Check(env) ==
          LET configured == /\ parseModelString(env.judgeModel).ok
                            /\ getModel(parseModelString(env.judgeModel).val, env).ok
              clamp(s) == Max(0, Min(Scale, s))
              numeric(text) == /\ JsonMatch(text).kind = "object"
                               /\ JsonMatch(text).score.type = "number"
                               /\ ~JsonMatch(text).score.nan
          IN /\ (configured /\ env.judge.ok) =>
                  probe.judge.score = clamp(env.judge.val.score)
             /\ (configured /\ env.judgeText.ok /\ numeric(env.judgeText.val)) =>
                  probe.judgeText.score = clamp(JsonMatch(env.judgeText.val).score.val)
    IN Check(probe.env)

\* C15 (amended): on the free-text JSON path a verdict with a numeric score s
\* gives s clamped into [0,1] (0.73 gives 0.73, 1.5 gives 1.0); on the
\* structured-output path a verdict the schema accepts gives its score
\* unchanged, and a verdict whose score is outside [0,1] is rejected by the
\* schema and gives the neutral 0.5 with an "Evaluation failed" reason.
C15_ClampedFreeTextRejectedStructured ==
  probe.stage = "scored" =>
    LET Check(env) ==
          LET configured == /\ parseModelString(env.judgeModel).ok
                            /\ getModel(parseModelString(env.judgeModel).val, env).ok
              clamp(s) == Max(0, Min(Scale, s))
              numeric(text) == /\ JsonMatch(text).kind = "object"
                               /\ JsonMatch(text).score.type = "number"
                               /\ ~JsonMatch(text).score.nan
          IN /\ (configured /\ env.judge.ok /\ InUnit(env.judge.val.score)) =>
                  /\ probe.judge.score = env.judge.val.score
                  /\ probe.judge.reason = env.judge.val.reason
             /\ (configured /\ env.judge.ok /\ ~InUnit(env.judge.val.score)) =>
                  /\ probe.judge.score = Scale \div 2
                  /\ probe.judge.reason # env.judge.val.reason
             /\ (configured /\ env.judgeText.ok /\ numeric(env.judgeText.val)) =>
                  probe.judgeText.score = clamp(JsonMatch(env.judgeText.val).score.val)
    IN Check(probe.env)

\* the verdict 1.5 gives 1.0 from the free-text judge and 0.5 from the
\* structured judge
C15_Witness ==
  /\ probe.stage = "scored"
  /\ probe.env.judgeModel = "openai:gpt-4o-mini"
  /\ "OPENAI_API_KEY" \in probe.env.apiKeys
  /\ probe.env.judgeText = Ok("{\"score\": 1.5, \"reason\": \"Perfect.\"}")
  /\ probe.judgeText = [score |-> Scale, reason |-> JsStr("Perfect.")]
  /\ probe.env.judge = Ok(JudgeObject(Scale + Scale \div 2))
  /\ probe.judge.score = Scale \div 2

\* ------------------------------------------------------------------------
\* Properties of the case pipeline
\* ------------------------------------------------------------------------
\* C16 (as stated): a case whose question is audio is generated through the
\* realtime transport whatever the run's model, a case whose question is text
\* through the text transport its model declares in LLMS, and exactly one
\* generation call is made for every case.
C16_TransportByInputOneCallPerCase ==
  probe.stage = "resolved" =>
    LET Check(run, case) ==
          LET audio == Truthy(case.questionAudioPath) /\ Trim(case.questionAudioPath) # ""
              text == Truthy(case.questionText) /\ Trim(case.questionText) # ""
          IN /\ Len(probe.calls) = 1
             /\ (audio /\ ~text) =>
                  probe.calls = <<[transport |-> "realtime", input |-> "audio"]>>
             /\ (text /\ ~audio /\ run.llmModel \in DOMAIN LLMS) =>
                  probe.calls = <<[transport |-> LLMS[run.llmModel].textTransport,
                                   input |-> "text"]>>
    IN Check(probe.run, probe.case)

\* C16 (amended): the same routing, with exactly one generation call for
\* every case that has an audio or a text question and none for a case that
\* has neither, which is failed before any call.
C16_TransportByInputOneCallPerQuestion ==
  probe.stage = "resolved" =>
    LET Check(run, case) ==
          LET audio == Truthy(case.questionAudioPath) /\ Trim(case.questionAudioPath) # ""
              text == Truthy(case.questionText) /\ Trim(case.questionText) # ""
          IN /\ (audio \/ text) => Len(probe.calls) = 1
             /\ (~audio /\ ~text) =>
                  /\ probe.calls = << >>
                  /\ probe.rec.status = "FAILED"
             /\ (audio /\ ~text) =>
                  probe.calls = <<[transport |-> "realtime", input |-> "audio"]>>
             /\ (text /\ ~audio /\ run.llmModel \in DOMAIN LLMS) =>
                  probe.calls = <<[transport |-> LLMS[run.llmModel].textTransport,
                                   input |-> "text"]>>
    IN Check(probe.run, probe.case)

\* an audio case of a run whose model declares standard text generation went
\* through the realtime transport, once
C16_Witness ==
  /\ probe.stage = "resolved"
  /\ probe.case = AudioCase(1)
  /\ probe.run.llmModel = "openai:gpt-5-mini-2025-08-07"
  /\ LLMS[probe.run.llmModel].textTransport = "vercel"
  /\ probe.calls = <<[transport |-> "realtime", input |-> "audio"]>>
  /\ probe.rec.status = "COMPLETED"

\* C17: a case is handled by its first present question field in the order
\* questionText, questionAudioPath, questionImagePath, consistently: the
\* input given to the generation call is of the modality that getQuestionText
\* derives the question string from, also when more than one field is set.
C17_FirstPresentModalityConsistent ==
  (probe.stage = "resolved" /\ probe.calls # << >>) =>
    LET Check(case) ==
          LET first == IF Truthy(case.questionText) THEN "text"
                       ELSE IF Truthy(case.questionAudioPath) THEN "audio"
                       ELSE IF Truthy(case.questionImagePath) THEN "image"
                       ELSE "none"
          IN /\ probe.calls[1].input = first
             /\ first = "text" => getQuestionText(case) = case.questionText
    IN Check(probe.case)

\* ------------------------------------------------------------------------
\* Properties of the stored test cases
\* ------------------------------------------------------------------------
\* C18: after any sequence of accepted create and update requests every
\* stored test case has exactly one of questionText, questionAudioPath and
\* questionImagePath set; an update to another modality leaves only the new
\* one set.
C18_ExactlyOneModalityStored ==
  \A i \in DOMAIN testRuns["r1"].suite.testCases :
    Cardinality({k \in {"questionText", "questionAudioPath", "questionImagePath"} :
                   testRuns["r1"].suite.testCases[i][k] # NULL}) = 1

C20_BadDocumentGivesMarkerOthersKept ==
  probe.stage = "loaded" =>
    LET Check(contexts, perDoc, parts) ==
          LET RECURSIVE Joined(_)
              Joined(k) == IF k = 0 THEN ""
                           ELSE IF k = 1 THEN parts[1]
                           ELSE Joined(k - 1) \o "\n\n---\n\n" \o parts[k]
              hasText(i) == Truthy(contexts[i].text)
              hasFile(i) == Truthy(contexts[i].filePath)
              file(i) == ContextFiles[contexts[i].filePath]
              offset(i) == SumSeq([j \in 1..(i - 1) |-> Len(perDoc[j])])
          IN /\ \A i \in DOMAIN contexts :
                  /\ Len(perDoc[i]) = (IF hasText(i) THEN 1 ELSE 0)
                                      + (IF hasFile(i) THEN 1 ELSE 0)
                  /\ hasText(i) => perDoc[i][1] = "[Text Context]\n" \o contexts[i].text
                  /\ (hasFile(i) /\ file(i).ok) =>
                       perDoc[i][Len(perDoc[i])] =
                         "[File: " \o contexts[i].filePath \o "]\n" \o file(i).val
                  /\ (hasFile(i) /\ ~file(i).ok) =>
                       perDoc[i][Len(perDoc[i])] =
                         "[Error loading context " \o contexts[i].id \o "]: "
                         \o (IF file(i).exc.isError THEN file(i).exc.message
                             ELSE "Unknown error")
                  /\ \A k \in DOMAIN perDoc[i] : parts[offset(i) + k] = perDoc[i][k]
             /\ Len(parts) = SumSeq([j \in DOMAIN contexts |-> Len(perDoc[j])])
             /\ probe.out = Joined(Len(parts))
    IN Check(probe.contexts, probe.perDoc, probe.parts)

\* three documents, the second with a missing file: its marker stands
\* between the text of the first and the file content of the third
C20_Witness ==
  /\ probe.stage = "loaded"
  /\ Len(probe.contexts) = 3
  /\ probe.contexts[2].filePath = "missing.pdf"
  /\ probe.out = "[Text Context]\nPatient info"
                 \o "\n\n---\n\n"
                 \o "[Error loading context ctx2]: File not found: /public/files/missing.pdf"
                 \o "\n\n---\n\n"
                 \o "[File: guide.txt]\nWash hands before every procedure."

\* C21: in the BLEU scorer calculateScores uses, a candidate of one token
\* contributes only its 1-gram precision to the geometric mean (the n-gram
\* sizes it has no n-grams for are skipped), so that the exact match of the
\* candidate "Paris" with the reference "Paris" has the maximum score.
C21_SingleTokenOnlyUnigramPrecision ==
  (/\ probe.stage = "scored"
   /\ Len(tokenize(probe.env.gen.val.text)) = 1
   /\ Len(tokenize(probe.case.expectedAnswer)) >= 1) =>
    LET Check(candidate, reference) ==
          /\ probe.scores.bleu =
               normalizeWithSigmoid(calculateRawSmoothBleuScore(candidate, reference, 1))
          /\ tokenize(candidate) = tokenize(reference) => probe.scores.bleu = Scale
    IN Check(probe.env.gen.val.text, probe.case.expectedAnswer)

\* C22: parseModelString throws exactly when the model string has no colon,
\* or the part before its first colon or the part after it is empty, or the
\* provider is not openai, anthropic or google; otherwise it returns the
\* provider and the whole remainder as model id, and provider, ":" and model
\* id put together are the model string.  Stated for the three model strings
\* of a scored case: the run's model, EMBEDDING_MODEL and LLM_JUDGE_MODEL.
C22_ParseModelStringErrorsExactly ==
  probe.stage = "scored" =>
    LET Parsed(m, config) ==
          LET split == ColonSplit(m)
              bad == \/ ~split.colon
                     \/ split.provider = ""
                     \/ split.modelId = ""
                     \/ split.provider \notin {"openai", "anthropic", "google"}
          IN /\ ~config.ok <=> bad
             /\ ~config.ok => config.exc.isError
             /\ config.ok =>
                  /\ DOMAIN config.val = {"provider", "modelId"}
                  /\ config.val.provider \in {"openai", "anthropic", "google"}
                  /\ config.val.modelId # ""
                  /\ config.val.provider \o ":" \o config.val.modelId = m
    IN /\ Parsed(probe.run.llmModel, probe.config)
       /\ Parsed(probe.env.embeddingModel, parseModelString(probe.env.embeddingModel))
       /\ Parsed(probe.env.judgeModel, parseModelString(probe.env.judgeModel))

\* a model string with two colons was parsed: the model id is everything
\* after the first colon
C22_Witness ==
  /\ probe.stage = "scored"
  /\ probe.run.llmModel = "google:a:b"
  /\ probe.config = Ok([provider |-> "google", modelId |-> "a:b"])
  /\ probe.env.judgeModel = "openai:gpt-4o-mini"

\* C23: when the judge's reply holds no JSON object, or JSON.parse throws on
\* it, the score is that of the first match of the score patterns in the
\* reply whose value lies in [0,1]; when no match has a value in [0,1], the
\* score is 0.5 and the reason holds the first 200 characters of the reply.
\* matches(text) lists what the patterns capture at each of their matches in
\* the reply, in the order of the reply.
C23_FirstScoreMatchInUnitInterval ==
  (/\ probe.stage = "scored"
   /\ parseModelString(probe.env.judgeModel).ok
   /\ getModel(parseModelString(probe.env.judgeModel).val, probe.env).ok
   /\ probe.env.judgeText.ok
   /\ JsonMatch(probe.env.judgeText.val).kind # "object") =>
    LET Check(text) ==
          LET matches == CASE text = "{score: 0.8}" -> <<"0.8">>
                           [] text = "Score: 0.8." -> <<"0.8.">>
                           [] text = "I would give this 0.9 out of 1" -> <<"0.9">>
                           [] text = "score: 7, rating: 0.4" -> <<"7", "0.4">>
                           [] text = "score: 7, score: 0.8" -> <<"7", "0.8">>
                           [] text = "Rating: ." -> <<".">>
                           [] OTHER -> << >>
              usable == {k \in DOMAIN matches :
                           /\ ~parseFloat(matches[k]).nan
                           /\ parseFloat(matches[k]).val >= 0
                           /\ parseFloat(matches[k]).val <= Scale}
          IN IF usable # {}
             THEN probe.judgeText.score =
                    parseFloat(matches[CHOOSE k \in usable : \A j \in usable : k <= j]).val
             ELSE probe.judgeText =
                    [score |-> Scale \div 2,
                     reason |-> JsStr("Could not parse evaluation. Response: "
                                      \o Slice200(text))]
    IN Check(probe.env.judgeText.val)

\* C24: for every n-gram size at which the candidate has an n-gram, the clipped
\* precision is the sum, over the distinct candidate n-grams, of the smaller
\* of the n-gram's count in the candidate and its count in the reference,
\* divided by the number of candidate n-grams; it lies in [0,1] and is 1 when
\* candidate and reference are the same token sequence.  The sum is counted
\* here as the candidate positions whose n-gram has occurred, up to and
\* including that position, no more often than the reference holds it.
C24_ClippedPrecisionIsMinCountRatio ==
  probe.stage = "scored" =>
    LET Check(candidate, reference) ==
          \A n \in 1..4 :
            LET c == getNgrams(candidate, n)
                r == getNgrams(reference, n)
                kept == {i \in DOMAIN c :
                           Cardinality({j \in 1..i : c[j] = c[i]})
                             <= Cardinality({j \in DOMAIN r : r[j] = c[i]})}
                p == probe.precisions[n]
            IN Len(c) > 0 =>
                 /\ p.num = Cardinality(kept)
                 /\ p.den = Len(c)
                 /\ 0 <= p.num /\ p.num <= p.den
                 /\ candidate = reference => p.num = p.den
    IN Check(tokenize(probe.env.gen.val.text), tokenize(probe.case.expectedAnswer))

\* a repeated word is counted once: one of three candidate 1-grams is kept
C24_Witness ==
  /\ probe.stage = "scored"
  /\ probe.env.gen.val.text = "paris paris paris"
  /\ probe.case.expectedAnswer = "The capital is Paris"
  /\ probe.precisions[1] = [num |-> 1, den |-> 3]
  /\ probe.precisions[2] = [num |-> 0, den |-> 2]

\* ------------------------------------------------------------------------
\* Properties of the batch judge
\* ------------------------------------------------------------------------

\* C25: batchCalculateLlmJudgeScores runs its judge calls in parallel with a
\* limit: the calls in flight at one time are never more than a fixed limit,
\* whatever the number of evaluations (the limit is taken to be
\* LLM_CONCURRENCY, the concurrency limit the worker defines), and the list
\* it resolves with has one entry per evaluation, in the order of the input.
C25_JudgeCallsInFlightBounded ==
  probe.stage \in {"mapped", "returned"} =>
    /\ Cardinality(probe.inFlight) <= LLM_CONCURRENCY
    /\ probe.stage = "returned" =>
         /\ Len(probe.out) = Len(probe.evaluations)
         /\ \A i \in DOMAIN probe.evaluations :
              probe.out[i] =
                calculateLlmJudgeScore(
                  probe.evaluations[i].question,
                  probe.evaluations[i].generatedAnswer,
                  probe.evaluations[i].expectedAnswer,
                  BatchEnv(probe.judgeModel,
                           IF i \in DOMAIN probe.replies THEN probe.replies[i]
                           ELSE NullObject))

\* C26: the question handed to the scorers.  For an audio case (one with a
\* non-blank questionAudioPath) it is the input transcript when the realtime
\* transport returned a non-empty one, and otherwise the case's questionText
\* when the case has one, else the placeholder "[Audio: <path>]"; for a text
\* case it is the case's questionText.
C26_ScoredQuestionIsTranscriptOrText ==
  (probe.stage = "resolved" /\ probe.generation.ok) =>
    LET Check(testCase, transcript, questionForScoring) ==
          LET audio == /\ testCase.questionAudioPath # NULL
                       /\ Trim(testCase.questionAudioPath) # ""
              hasText == testCase.questionText # NULL /\ testCase.questionText # ""
          IN IF audio
             THEN questionForScoring =
                    IF transcript # NULL /\ transcript # "" THEN transcript
                    ELSE IF hasText THEN testCase.questionText
                    ELSE "[Audio: " \o testCase.questionAudioPath \o "]"
             ELSE questionForScoring = testCase.questionText
    IN Check(probe.case, probe.env.gen.val.inputTranscript,
             probe.generation.val.questionForScoring)

\* an audio case with a questionText whose transcript came back empty
C26_Witness ==
  /\ probe.stage = "resolved"
  /\ probe.case.questionAudioPath = "audio/q.wav"
  /\ probe.case.questionText = "What is the capital of France?"
  /\ probe.env.gen = Ok([text |-> "Paris", inputTranscript |-> ""])
  /\ probe.calls = <<[transport |-> "realtime", input |-> "audio"]>>
  /\ probe.generation.ok
  /\ probe.generation.val.questionForScoring = "What is the capital of France?"
  /\ probe.rec.status = "COMPLETED"

\* ------------------------------------------------------------------------
\* Properties of the realtime socket
\* ------------------------------------------------------------------------

\* C27: in each phase that waits on the socket, the outcome is that of the
\* first of its success event (session.updated or session.created for
\* configureSession, response.done for sendTextMessage and streamAudio), an
\* error event and the phase's timer; once decided it does not change,
\* whatever event or timer comes later; the listener of the phase is detached
\* in every outcome, and no listener of configureSession is attached while a
\* response is awaited.
C27_FirstEventDecidesListenerDetached ==
  [][LET Decided(before, after, timer, success, listeners) ==
           /\ before \notin {"none", "pending"} => after = before
           /\ (before = "pending" /\ Len(probe.inbox) > 0
                 /\ probe'.inbox = Tail(probe.inbox)) =>
                after = IF Head(probe.inbox) \in success THEN "resolved"
                        ELSE IF Head(probe.inbox) = "error" THEN "error"
                        ELSE "pending"
           /\ (before = "pending" /\ timer \in probe.timers
                 /\ timer \notin probe'.timers /\ probe'.inbox = probe.inbox) =>
                after = "timeout"
           /\ after \notin {"none", "pending"} => probe'.listeners \cap listeners = {}
     IN /\ Decided(probe.configure, probe'.configure, "configureSession",
                   SessionEvents, {"configureSession"})
        /\ Decided(probe.response, probe'.response, "response",
                   {"response.done"}, {"sendTextMessage", "streamAudio"})
        /\ probe.stage = "settled" =>
             probe'.stage = "settled" /\ probe'.outcome = probe.outcome
        /\ probe'.stage = "responding" => "configureSession" \notin probe'.listeners
    ]_vars

\* the session was acknowledged after configureSession had timed out: the
\* late event was delivered and the outcome is still the timeout
C27_Witness ==
  /\ probe.stage = "settled"
  /\ probe.configure = "timeout"
  /\ probe.outcome = Throw(Error("Session configuration timeout"))
  /\ probe.acked
  /\ probe.inbox = << >>
  /\ probe.listeners = {}
  /\ probe.timers = {}

\* C28: configureSession does not resolve before the server has acknowledged
\* the session.update: whenever the question (the text item or the audio
\* buffer) and the response request are sent, the server has answered the
\* session.update with session.updated.
C28_QuestionSentAfterUpdateAcknowledged ==
  [][(probe.stage # "responding" /\ probe'.stage = "responding") =>
       /\ probe'.configure = "resolved"
       /\ probe.acked
    ]_vars

\* C29: generateAnswerRealtime leaves no connection open: once it has returned
\* or thrown (an answer, a failed session configuration, a failed audio
\* load, a response error or timeout, a connection timeout or error), the
\* socket it opened is closing or closed.
C29_NoConnectionLeftOpen ==
  probe.stage = "settled" => probe.readyState \in {"CLOSING", "CLOSED"}

\* the audio file cannot be loaded after the session was configured
C29_Witness ==
  /\ probe.stage = "settled"
  /\ probe.input = "audio"
  /\ probe.configure = "resolved"
  /\ probe.response = "none"
  /\ probe.outcome = Throw(Error("Invalid WAV file format"))
  /\ probe.connection
  /\ probe.readyState = "CLOSING"

\* ------------------------------------------------------------------------
\* Properties of cases without a question
\* ------------------------------------------------------------------------

====
